---- MODULE Spec2Model ----
(***************************************************************************)
(* A model of devbox's "unbox" provisioner (src/devbox/unbox.py).          *)
(*                                                                         *)
(* Text is modelled as sequences of one-character strings, a path as a     *)
(* sequence of names below the directory in which unbox was started.       *)
(* Every external tool (git, the setup commands, the environment tool,     *)
(* the fetch of a remote script) is a step whose outcome is chosen         *)
(* nondeterministically; the filesystem keeps what the tools did.          *)
(***************************************************************************)
EXTENDS Integers, Sequences, FiniteSets, TLC

VARIABLES
    world,      \* the repositories that exist remotely and their contents
    fs,         \* repository directories on disk, keyed by absolute path
    ext,        \* paths outside the repositories that hold an environment
    tmpfiles,   \* temporary files left by urlretrieve
    cwd,        \* the process working directory
    stack,      \* call stack of unbox frames, innermost last
    exc,        \* the exception being propagated, or NoExc
    args,       \* the command line every run is started with
    runs,       \* number of unbox runs started from the command line
    obs,        \* observations of the calls made (history only)
    url,        \* input of the destination-name computation
    name,       \* its result
    hookconf,   \* the hook commands of a configuration as configure loads it
    written,    \* what configure writes to the configuration file
    hook,       \* one call of the hook runner's run_checks
    file,       \* the file append works on, and the lines it is given
    procs       \* the child processes gitbox has started with Popen

vars ==
    <<world, fs, ext, tmpfiles, cwd, stack, exc, args, runs, obs, url, name,
      hookconf, written, hook, file, procs>>

(***************************************************************************)
(* Bounds                                                                  *)
(***************************************************************************)
MaxRuns == 2
MaxSegLen == 3
MaxCmds == 2
MaxChecks == 2
MaxPairs == 1
MaxFiles == 2
MaxText == 3
MaxLines == 2
MaxGitboxRuns == 1
MaxDepth == 4

(***************************************************************************)
(* Text                                                                    *)
(***************************************************************************)
Last(s) == s[Len(s)]
Front(s) == SubSeq(s, 1, Len(s) - 1)

\* the characters matched by [A-Za-z0-9_\-] among the ones the model uses
WordChars == {"a", "d", "e", "g", "i", "p", "r", "t", "u", "w", "_", "-"}

GIT == <<"g", "i", "t">>
DOTGIT == <<".", "g", "i", "t">>

RECURSIVE FindAll(_, _, _)
FindAll(s, cur, acc) ==
    IF s = <<>>
    THEN IF cur = <<>> THEN acc ELSE Append(acc, cur)
    ELSE IF Head(s) \in WordChars
         THEN FindAll(Tail(s), Append(cur, Head(s)), acc)
         ELSE FindAll(Tail(s), <<>>,
                      IF cur = <<>> THEN acc ELSE Append(acc, cur))

\* the result of indexing an empty list
IndexError == <<"!", "IndexError">>

repo_name_from_url(u) ==
    LET all_words == FindAll(u, <<>>, <<>>)
    IN  IF all_words = <<>> THEN IndexError
        ELSE LET popped == IF Last(all_words) = GIT
                           THEN Front(all_words) ELSE all_words
             IN  IF popped = <<>> THEN IndexError ELSE Last(popped)

(***************************************************************************)
(* Paths                                                                   *)
(***************************************************************************)
\* os.path.join(cwd, text): the text cut at every "/"
RECURSIVE SplitPath(_, _, _)
SplitPath(s, cur, acc) ==
    IF s = <<>>
    THEN IF cur = <<>> THEN acc ELSE Append(acc, cur)
    ELSE IF Head(s) = "/"
         THEN SplitPath(Tail(s), <<>>,
                        IF cur = <<>> THEN acc ELSE Append(acc, cur))
         ELSE SplitPath(Tail(s), Append(cur, Head(s)), acc)

Abs(dir, text) == dir \o SplitPath(text, <<>>, <<>>)

\* os.path.exists of a repository directory named by text, seen from dir
exists(dir, text) == Abs(dir, text) \in DOMAIN fs

VENV == <<"v", "e", "n", "v">>
NoPath == <<>>

\* external environment paths a user can pass with --venv
ExtGood == << <<"/">>, <<"g">> >>
ExtMissing == << <<"/">>, <<"w">> >>

(***************************************************************************)
(* Commands and configurations                                             *)
(***************************************************************************)
Tok(s, r) == [scheme |-> s, rest |-> r]

\* URL_SCRIPT = re.compile(r'^(http|https|ftp)://.+$')
URL_SCRIPT(tok) == tok.scheme \in {"http", "https", "ftp"} /\ tok.rest # ""

CmdRemote == << Tok("http", "host/script.py"), Tok("", "--flag") >>
CmdPlain == << Tok("", "make"), Tok("", "deps") >>
CmdFile == << Tok("file", "setup.sh") >>

NoEnv == [declared |-> FALSE, path |-> VENV, args |-> <<>>]
Env(a) == [declared |-> TRUE, path |-> VENV, args |-> a]

\* load_conf's result for a directory without a .devbox.conf
EmptyConf ==
    [pre_setup |-> <<>>, post_setup |-> <<>>, dependencies |-> <<>>,
     env |-> NoEnv, parent |-> NoPath]

URL_R == <<"u", "/", "r", ".", "g", "i", "t">>
URL_D == <<"u", "/", "d">>
URL_E == <<"u", "/", "e", ".", "g", "i", "t">>
LOCAL_R == <<"r">>
DEST_W == <<"w">>

Repo(f, c, h) == [conf_file |-> f, conf |-> c, git_hooks |-> h]

\* a root with two dependencies, one of them without a configuration file
WorldTree ==
    (URL_R :> Repo(TRUE,
                   [pre_setup |-> <<CmdRemote>>, post_setup |-> <<CmdPlain>>,
                    dependencies |-> <<URL_D, URL_E>>,
                    env |-> Env(<<"--no-site">>), parent |-> NoPath], TRUE))
    @@ (URL_D :> Repo(TRUE,
                   [pre_setup |-> <<CmdFile>>, post_setup |-> <<CmdRemote>>,
                    dependencies |-> <<>>,
                    env |-> Env(<<>>), parent |-> NoPath], FALSE))
    @@ (URL_E :> Repo(FALSE, EmptyConf, TRUE))

\* a single repository without environment
WorldSolo ==
    (URL_R :> Repo(TRUE,
                   [pre_setup |-> <<CmdPlain, CmdFile>>,
                    post_setup |-> <<CmdRemote, CmdPlain>>,
                    dependencies |-> <<>>,
                    env |-> NoEnv, parent |-> NoPath], TRUE))

Worlds == {WorldTree, WorldSolo}

URL_A == <<"u", "/", "a">>
URL_P == <<"u", "/", "p">>
PEER == <<"p">>

\* a root that names the peer repository p as its parent, above a tree of
\* dependencies two levels deep; penv: the configuration of p declares env
WorldDeep(penv) ==
    (URL_R :> Repo(TRUE,
                   [pre_setup |-> <<CmdPlain>>, post_setup |-> <<CmdRemote>>,
                    dependencies |-> <<URL_D, URL_E>>,
                    env |-> Env(<<"--no-site">>), parent |-> PEER], TRUE))
    @@ (URL_D :> Repo(TRUE,
                   [pre_setup |-> << >>, post_setup |-> <<CmdPlain>>,
                    dependencies |-> <<URL_A>>,
                    env |-> Env(<< >>), parent |-> NoPath], FALSE))
    @@ (URL_A :> Repo(TRUE,
                   [pre_setup |-> << >>, post_setup |-> <<CmdFile>>,
                    dependencies |-> << >>,
                    env |-> NoEnv, parent |-> NoPath], FALSE))
    @@ (URL_E :> Repo(FALSE, EmptyConf, FALSE))
    @@ (URL_P :> Repo(TRUE,
                   [pre_setup |-> << >>, post_setup |-> << >>,
                    dependencies |-> << >>,
                    env |-> IF penv THEN Env(<< >>) ELSE NoEnv,
                    parent |-> NoPath], FALSE))

(***************************************************************************)
(* Hook commands and remove_duplicate_commands of devbox/__init__.py       *)
(***************************************************************************)
\* a command is a string or a list of tokens
Str(t) == [kind |-> "str", text |-> t, toks |-> << >>]
Tokens(ts) == [kind |-> "list", text |-> << >>, toks |-> ts]

\* ' '.join(tokens)
RECURSIVE JoinWords(_)
JoinWords(toks) ==
    IF toks = << >> THEN << >>
    ELSE IF Len(toks) = 1 THEN toks[1]
    ELSE toks[1] \o <<" ">> \o JoinWords(Tail(toks))

\* the local variable command before its first assignment
Unbound == <<"unbound">>

\* the while loop of lines 66-73, index counted from 1: command is assigned
\* only for an entry that is not a string
RECURSIVE DedupLoop(_, _, _, _)
DedupLoop(commands, index, seen, command) ==
    IF index > Len(commands)
    THEN [error |-> "none", commands |-> commands]
    ELSE LET assigned == IF commands[index].kind # "str"
                         THEN JoinWords(commands[index].toks)
                         ELSE command
         IN  IF assigned = Unbound
             THEN [error |-> "UnboundLocalError", commands |-> commands]
             ELSE IF assigned \in seen
                  THEN DedupLoop(SubSeq(commands, 1, index - 1)
                                   \o SubSeq(commands, index + 1,
                                             Len(commands)),
                                 index, seen, assigned)
                  ELSE DedupLoop(commands, index + 1,
                                 seen \cup {assigned}, assigned)

remove_duplicate_commands(commands) == DedupLoop(commands, 1, {}, Unbound)

NoHooks == [hooks_all |-> << >>, hooks_modified |-> << >>]
NotWritten == [error |-> "none", done |-> FALSE, conf |-> NoHooks]

\* no call of run_checks, and no file for append
NoChecks ==
    [all |-> << >>, modified |-> << >>, files |-> << >>, path |-> << >>,
     pc |-> "idle", i |-> 0, j |-> 0, k |-> 0, retcode |-> 0,
     calls |-> << >>]
NoFile ==
    [exists |-> FALSE, text |-> << >>, lines |-> << >>, calls |-> 0,
     \* history: the text before the last call
     before |-> << >>]

(***************************************************************************)
(* Filesystem                                                              *)
(***************************************************************************)
EnvAbsent == [kind |-> "absent", target |-> NoPath]
EnvReal == [kind |-> "real", target |-> NoPath]
EnvLink(t) == [kind |-> "link", target |-> t]

\* a directory as git clone leaves it
Cloned(origin) == [origin |-> origin, hooks |-> "dir", env |-> EnvAbsent]

ConfFileExists(dir) == world[fs[dir].origin].conf_file
GitHooksExists(dir) == world[fs[dir].origin].git_hooks

\* os.path.lexists of an environment path
EnvLexists(p) ==
    \/ p \in ext
    \/ /\ Len(p) > 0 /\ Last(p) = VENV /\ Front(p) \in DOMAIN fs
       /\ fs[Front(p)].env.kind # "absent"

\* os.path.exists of an environment path: symbolic links are followed
RECURSIVE EnvResolves(_, _)
EnvResolves(p, fuel) ==
    \/ p \in ext
    \/ /\ Len(p) > 0 /\ Last(p) = VENV /\ Front(p) \in DOMAIN fs
       /\ LET e == fs[Front(p)].env
          IN  \/ e.kind = "real"
              \/ e.kind = "link" /\ fuel > 0 /\ EnvResolves(e.target, fuel - 1)

EnvExists(p) == EnvResolves(p, Cardinality(DOMAIN fs))

\* the path a symbolic link chain ends at
RECURSIVE EnvEnd(_, _)
EnvEnd(p, fuel) ==
    IF /\ Len(p) > 0 /\ Last(p) = VENV /\ Front(p) \in DOMAIN fs
       /\ fs[Front(p)].env.kind = "link" /\ fuel > 0
    THEN EnvEnd(fs[Front(p)].env.target, fuel - 1)
    ELSE p

(***************************************************************************)
(* The call stack                                                          *)
(***************************************************************************)
NoExc == "none"
NotComputed == <<"?">>
BaseDir == <<>>

NoDest == [given |-> FALSE, text |-> <<>>]
Dest(t) == [given |-> TRUE, text |-> t]

Frame(repo, dest, no_deps, venv, entry) ==
    [repo |-> repo, dest |-> dest, no_deps |-> no_deps, venv |-> venv,
     pc |-> "resolve", conf |-> EmptyConf, tmp |-> NoPath, i |-> 0,
     path |-> 0, stage |-> "pre",
     \* the is_dep argument of gitbox's unbox
     is_dep |-> FALSE,
     \* history: the working directory and the arguments at the call, and
     \* what this call has done
     entry |-> entry, dest0 |-> dest, venv0 |-> venv, local0 |-> FALSE,
     cloned |-> FALSE,
     updfail |-> FALSE, linked |-> FALSE,
     \* history: the number of this call in the run and of the call that
     \* made it (0 for the command line)
     id |-> 0, by |-> 0]

\* history: the errors raised so far, each with the stage that raised it
Raised(seen, stage, kind) ==
    IF kind = NoExc THEN seen
    ELSE seen \cup {[stage |-> stage, kind |-> kind]}

\* history: what the call f does, in the order things are done in a run
Event(f, ev) == [id |-> f.id, by |-> f.by, repo |-> f.repo, ev |-> ev]

top == stack[Len(stack)]
SetTop(f) == [stack EXCEPT ![Len(stack)] = f]
Running == exc = NoExc /\ stack # <<>>
At(pcs) == Running /\ top.pc \in pcs

NoCall ==
    [tool |-> "none", argv |-> <<>>, rc |-> 0, at |-> NoPath,
     target |-> NoPath, pathenv |-> NoPath]
Call(tool, argv, rc, target, pathenv) ==
    [tool |-> tool, argv |-> argv, rc |-> rc, at |-> cwd,
     target |-> target, pathenv |-> pathenv]

Fixed ==
    UNCHANGED <<world, args, url, name, hookconf, written, hook, file, procs>>

(***************************************************************************)
(* main: one run of unbox from the command line                            *)
(***************************************************************************)
\* a resolution that prefers an existing local path to an explicit dest
DestOf_localfirst(repo, dest, dir) ==
    IF exists(dir, repo)
    THEN repo
    ELSE IF ~dest.given \/ dest.text = <<>>
         THEN repo_name_from_url(repo)
         ELSE dest.text

\* the destination unbox settles on, or IndexError
DestOf(repo, dest, dir) ==
    IF exists(dir, repo) /\ ~dest.given
    THEN repo
    ELSE IF ~dest.given \/ dest.text = <<>>
         THEN repo_name_from_url(repo)
         ELSE dest.text

StartRun ==
    /\ stack = <<>>
    /\ runs < MaxRuns
    /\ runs' = runs + 1
    /\ exc' = NoExc
    /\ stack' = <<[Frame(args.repo, args.dest, args.no_deps, args.venv, cwd)
                      EXCEPT !.id = 1]>>
    /\ obs' = [obs EXCEPT !.last = NoCall, !.ran = {},
                          !.trail = <<[id |-> 1, by |-> 0,
                                       repo |-> args.repo, ev |-> "call"]>>,
                          !.starts = Append(@,
                            [dest |-> Abs(cwd, DestOf(args.repo, args.dest,
                                                      cwd)),
                             fresh |-> ~exists(cwd, DestOf(args.repo,
                                                  args.dest, cwd))])]
    /\ UNCHANGED <<fs, ext, tmpfiles, cwd>>
    /\ Fixed

(***************************************************************************)
(* unbox, lines 196-205                                                    *)
(***************************************************************************)
ResolveDest ==
    /\ At({"resolve"})
    /\ LET d == DestOf(top.repo, top.dest, cwd)
       IN  IF d = IndexError
           THEN exc' = "IndexError" /\ UNCHANGED stack
           ELSE /\ stack' = SetTop([top EXCEPT
                             !.dest = Dest(d), !.pc = "clone",
                             !.local0 = exists(cwd, top.repo)])
                /\ UNCHANGED exc
    /\ obs' = [obs EXCEPT !.last = NoCall]
    /\ UNCHANGED <<fs, ext, tmpfiles, cwd, runs>>
    /\ Fixed

\* subprocess.call in place of subprocess.check_call
check_call_lenient(rc) == NoExc

\* subprocess.check_call raises CalledProcessError on a non-zero exit status
check_call(rc) == IF rc = 0 THEN NoExc ELSE "CalledProcessError"

\* what git can clone from: a remote repository or a local one
Cloneable(repo) == repo \in DOMAIN world \/ exists(cwd, repo)
OriginOf(repo) ==
    IF repo \in DOMAIN world THEN repo ELSE fs[Abs(cwd, repo)].origin

\* a clone that is made without looking at the destination
CloneNeeded_always(f) == TRUE

CloneNeeded(f) == ~exists(cwd, f.dest.text)

CloneRepo ==
    /\ At({"clone"})
    /\ IF CloneNeeded(top)
       THEN \E rc \in {0, 1} :
            /\ rc = 0 => Cloneable(top.repo)
            /\ obs' = [obs EXCEPT
                 !.last = Call("clone", <<>>, rc,
                               Abs(cwd, top.dest.text), NoPath),
                 !.clones = Append(@, [run |-> runs, rc |-> rc,
                                       path |-> Abs(cwd, top.dest.text)]),
                 !.trail = Append(@, Event(top, "clone")),
                 !.raised = Raised(@, "clone", check_call(rc))]
            /\ fs' = IF rc = 0
                     THEN fs @@ (Abs(cwd, top.dest.text)
                                   :> Cloned(OriginOf(top.repo)))
                     ELSE fs
            /\ exc' = check_call(rc)
            /\ stack' = IF check_call(rc) = NoExc
                        THEN SetTop([top EXCEPT !.pc = "pushd1",
                                                !.cloned = TRUE])
                        ELSE SetTop([top EXCEPT !.cloned = TRUE])
       ELSE /\ stack' = SetTop([top EXCEPT !.pc = "pushd1"])
            /\ obs' = [obs EXCEPT !.last = NoCall]
            /\ UNCHANGED <<fs, exc>>
    /\ UNCHANGED <<ext, tmpfiles, cwd, runs>>
    /\ Fixed

(***************************************************************************)
(* pushd, lines 42-50                                                      *)
(***************************************************************************)
\* the program counters of the two `with pushd(dest)` blocks of unbox
InPushd(pc) ==
    pc \in {"pull", "submodule", "load_conf", "cmd", "unlink", "hooks",
            "rmtree", "symlink", "env", "venv_link", "venv_parent",
            "venv_create", "venv_return", "popd1", "popd2"}

\* entering: tmp = os.path.abspath(os.curdir); os.chdir(path)
PushdEnter(next, stage) ==
    IF exists(cwd, top.dest.text)
    THEN /\ cwd' = Abs(cwd, top.dest.text)
         /\ stack' = SetTop([top EXCEPT !.tmp = cwd, !.pc = next,
                                        !.stage = stage, !.i = 1])
         /\ UNCHANGED exc
    ELSE /\ exc' = "OSError"
         /\ UNCHANGED <<cwd, stack>>

\* a pushd without try/finally
PushdExit_nofinally(f, raising) == IF raising THEN cwd ELSE f.tmp

\* a pushd that never changes back
PushdExit_stay(f, raising) == cwd

\* leaving: the finally clause runs os.chdir(tmp), raising or not
PushdExit(f, raising) == f.tmp

Pushd1 ==
    /\ At({"pushd1"})
    /\ PushdEnter("pull", "pre")
    /\ obs' = [obs EXCEPT !.last = NoCall]
    /\ UNCHANGED <<fs, ext, tmpfiles, runs>>
    /\ Fixed

(***************************************************************************)
(* update_repo, lines 110-117, and load_conf, lines 32-39                  *)
(***************************************************************************)
\* an update that stops at the first failing git command
AfterCall_strict(rc, next) == IF rc = 0 THEN next ELSE "load_conf"

\* subprocess.call returns the exit status, which update_repo drops
AfterCall(rc, next) == next

GitPull ==
    /\ At({"pull"})
    /\ \E rc \in {0, 1} :
        /\ obs' = [obs EXCEPT !.last = Call("pull", <<>>, rc, cwd, NoPath),
                              !.trail = Append(@, Event(top, "update"))]
        /\ stack' = SetTop([top EXCEPT !.pc = AfterCall(rc, "submodule"),
                                       !.updfail = @ \/ rc # 0])
    /\ UNCHANGED <<fs, ext, tmpfiles, cwd, exc, runs>>
    /\ Fixed

GitSubmodule ==
    /\ At({"submodule"})
    /\ \E rc \in {0, 1} :
        /\ obs' = [obs EXCEPT
             !.last = Call("submodule", <<>>, rc, cwd, NoPath)]
        /\ stack' = SetTop([top EXCEPT !.pc = AfterCall(rc, "load_conf"),
                                       !.updfail = @ \/ rc # 0])
    /\ UNCHANGED <<fs, ext, tmpfiles, cwd, exc, runs>>
    /\ Fixed

\* a load_conf with stock commands for a directory without a file
load_conf_defaults(dir) ==
    IF dir \in DOMAIN fs /\ ConfFileExists(dir)
    THEN world[fs[dir].origin].conf
    ELSE [EmptyConf EXCEPT !.post_setup = <<CmdPlain>>]

load_conf(dir) ==
    IF dir \in DOMAIN fs /\ ConfFileExists(dir)
    THEN world[fs[dir].origin].conf
    ELSE EmptyConf

LoadConf ==
    /\ At({"load_conf"})
    /\ stack' = SetTop([top EXCEPT !.conf = load_conf(cwd), !.pc = "cmd"])
    /\ obs' = [obs EXCEPT !.last = NoCall]
    /\ UNCHANGED <<fs, ext, tmpfiles, cwd, exc, runs>>
    /\ Fixed

(***************************************************************************)
(* run_commands, lines 63-98                                               *)
(***************************************************************************)
Commands(f) ==
    IF f.stage = "pre" THEN f.conf.pre_setup ELSE f.conf.post_setup

\* os.environ['PATH']: the directories the process looks commands up in
EnvironPath == << << <<"/">>, <<"b", "i", "n">> >> >>

\* a PATH that is changed for the commands of both lists
PathEnv_bothlists(f) ==
    IF f.conf.env.declared
    THEN << <<f.conf.env.path, <<"b", "i", "n">> >> >> \o EnvironPath
    ELSE NoPath

\* lines 81-85: the PATH given to the command, NoPath when the command
\* inherits the environment of the process; the venv argument of
\* run_commands is None for pre_setup and conf.get('env') for post_setup
PathEnv(f) ==
    IF f.stage = "post" /\ f.conf.env.declared
    THEN << <<f.conf.env.path, <<"b", "i", "n">> >> >> \o EnvironPath
    ELSE NoPath

FreshTmp ==
    CHOOSE n \in 1..(Cardinality(tmpfiles) + 1) :
        n \notin tmpfiles /\ \A m \in 1..(n - 1) : m \in tmpfiles

TmpTok(n) == Tok("tmpfile", ToString(n))

\* the argument vector handed to subprocess.check_call
Argv(command, path) ==
    IF path # 0 THEN <<TmpTok(path)>> \o Tail(command) ELSE command

\* where run_commands goes once subprocess.check_call has returned zero
AfterCheckCall(f) ==
    IF f.path # 0 THEN [f EXCEPT !.pc = "unlink"]
    ELSE [f EXCEPT !.i = @ + 1]

\* the loop is over: back in unbox
CommandsDone ==
    /\ At({"cmd"})
    /\ top.i > Len(Commands(top))
    /\ stack' = SetTop([top EXCEPT
                  !.pc = IF top.stage = "pre" THEN "hooks" ELSE "popd2"])
    /\ obs' = [obs EXCEPT !.last = NoCall]
    /\ UNCHANGED <<fs, ext, tmpfiles, cwd, exc, runs>>
    /\ Fixed

\* lines 88-92: urlretrieve, os.stat, os.chmod
CommandFetch ==
    /\ At({"cmd"})
    /\ top.i <= Len(Commands(top))
    /\ URL_SCRIPT(Commands(top)[top.i][1])
    /\ top.path = 0
    /\ \E ok \in BOOLEAN :
        /\ obs' = [obs EXCEPT
             !.last = Call("fetch", <<Commands(top)[top.i][1]>>,
                           IF ok THEN 0 ELSE 1, cwd, NoPath),
             !.raised = Raised(@, "fetch", IF ok THEN NoExc ELSE "IOError")]
        /\ IF ok
           THEN /\ tmpfiles' = tmpfiles \cup {FreshTmp}
                /\ stack' = SetTop([top EXCEPT !.path = FreshTmp])
                /\ UNCHANGED exc
           ELSE /\ exc' = "IOError"
                /\ UNCHANGED <<tmpfiles, stack>>
    /\ UNCHANGED <<fs, ext, cwd, runs>>
    /\ Fixed

\* line 94: subprocess.check_call(command, **kwargs)
CommandExec ==
    /\ At({"cmd"})
    /\ top.i <= Len(Commands(top))
    /\ URL_SCRIPT(Commands(top)[top.i][1]) => top.path # 0
    /\ \E rc \in {0, 1} :
        /\ obs' = [obs EXCEPT
             !.last = Call("command", Argv(Commands(top)[top.i], top.path),
                           rc, cwd, PathEnv(top)),
             !.ran = @ \cup {[dir |-> cwd, stage |-> top.stage,
                              i |-> top.i, rc |-> rc]},
             !.trail = Append(@, Event(top, top.stage)),
             !.raised = Raised(@, "command", check_call(rc))]
        /\ exc' = check_call(rc)
        /\ stack' = IF check_call(rc) = NoExc
                    THEN SetTop(AfterCheckCall(top))
                    ELSE stack
    /\ UNCHANGED <<fs, ext, tmpfiles, cwd, runs>>
    /\ Fixed

\* lines 97-98: os.unlink(path)
CommandUnlink ==
    /\ At({"unlink"})
    /\ tmpfiles' = tmpfiles \ {top.path}
    /\ stack' = SetTop([top EXCEPT !.path = 0, !.i = @ + 1, !.pc = "cmd"])
    /\ obs' = [obs EXCEPT !.last = NoCall]
    /\ UNCHANGED <<fs, ext, cwd, exc, runs>>
    /\ Fixed

(***************************************************************************)
(* setup_git_hooks, lines 101-107                                          *)
(***************************************************************************)
\* a hook setup without the islink test
HooksNeeded_nolinktest(dir) == GitHooksExists(dir)

\* os.path.exists('git_hooks') and not os.path.islink('.git/hooks')
HooksNeeded(dir) == GitHooksExists(dir) /\ fs[dir].hooks # "link"

Op(op, ok) == [run |-> runs, dir |-> cwd, op |-> op, ok |-> ok]

HooksCheck ==
    /\ At({"hooks"})
    /\ stack' = SetTop([top EXCEPT
                  !.pc = IF HooksNeeded(cwd) THEN "rmtree" ELSE "env"])
    /\ obs' = [obs EXCEPT !.last = NoCall]
    /\ UNCHANGED <<fs, ext, tmpfiles, cwd, exc, runs>>
    /\ Fixed

\* shutil.rmtree('.git/hooks') raises when the path is missing or a link
HooksRmtree ==
    /\ At({"rmtree"})
    /\ LET ok == fs[cwd].hooks = "dir"
       IN  /\ obs' = [obs EXCEPT !.last = NoCall,
                                 !.ops = Append(@, Op("rmtree", ok)),
                                 !.trail = Append(@, Event(top, "rmtree"))]
           /\ IF ok
              THEN /\ fs' = [fs EXCEPT ![cwd].hooks = "absent"]
                   /\ stack' = SetTop([top EXCEPT !.pc = "symlink"])
                   /\ UNCHANGED exc
              ELSE /\ exc' = "OSError"
                   /\ UNCHANGED <<fs, stack>>
    /\ UNCHANGED <<ext, tmpfiles, cwd, runs>>
    /\ Fixed

\* os.symlink('../git_hooks', '.git/hooks') can fail, and raises then
HooksSymlink ==
    /\ At({"symlink"})
    /\ \E ok \in BOOLEAN :
        /\ ok => fs[cwd].hooks = "absent"
        /\ obs' = [obs EXCEPT !.last = NoCall,
                              !.ops = Append(@, Op("hooklink", ok)),
                              !.trail = Append(@, Event(top, "hooklink"))]
        /\ IF ok
           THEN /\ fs' = [fs EXCEPT ![cwd].hooks = "link"]
                /\ stack' = SetTop([top EXCEPT !.pc = "env"])
                /\ UNCHANGED exc
           ELSE /\ exc' = "OSError"
                /\ UNCHANGED <<fs, stack>>
    /\ UNCHANGED <<ext, tmpfiles, cwd, runs>>
    /\ Fixed

\* line 214: if conf.get('env')
EnvCheck ==
    /\ At({"env"})
    /\ stack' = SetTop([top EXCEPT
                  !.pc = IF top.conf.env.declared
                         THEN "venv_link" ELSE "popd1"])
    /\ obs' = [obs EXCEPT !.last = NoCall]
    /\ UNCHANGED <<fs, ext, tmpfiles, cwd, exc, runs>>
    /\ Fixed

(***************************************************************************)
(* create_virtualenv, lines 142-175                                        *)
(***************************************************************************)
EnvPath(f) == Abs(cwd, f.conf.env.path)

\* a test that takes any path for missing
EnvNeeded_always(f) == TRUE

\* lines 143, 147 and 157: not os.path.exists(env['path'])
EnvNeeded(f) == ~EnvExists(EnvPath(f))

\* os.symlink(target, path) raises when something is already at path
Symlink(target, path, next, handed) ==
    IF EnvLexists(path)
    THEN /\ exc' = "OSError"
         /\ obs' = [obs EXCEPT !.last = NoCall,
                               !.ops = Append(@, Op("envlink", FALSE)),
                               !.trail = Append(@, Event(top, "envlink"))]
         /\ UNCHANGED <<fs, stack>>
    ELSE /\ fs' = [fs EXCEPT ![Front(path)].env = EnvLink(target)]
         /\ obs' = [obs EXCEPT !.last = NoCall,
                               !.ops = Append(@, Op("envlink", TRUE)),
                               !.trail = Append(@, Event(top, "envlink"))]
         /\ stack' = SetTop([top EXCEPT !.pc = next, !.linked = handed])
         /\ UNCHANGED exc

\* lines 143-144: if venv is not None and not os.path.exists(env['path'])
VenvLink ==
    /\ At({"venv_link"})
    /\ IF top.venv # NoPath /\ EnvNeeded(top)
       THEN Symlink(top.venv, EnvPath(top), "venv_parent", TRUE)
       ELSE /\ stack' = SetTop([top EXCEPT !.pc = "venv_parent"])
            /\ obs' = [obs EXCEPT !.last = NoCall]
            /\ UNCHANGED <<fs, exc>>
    /\ UNCHANGED <<ext, tmpfiles, cwd, runs>>
    /\ Fixed

\* lines 147-154: the environment of the peer repository ../parent
VenvParent ==
    /\ At({"venv_parent"})
    /\ LET parent_path == Front(cwd) \o <<top.conf.parent>>
           parent_conf == load_conf(parent_path)
           venv == parent_path \o <<parent_conf.env.path>>
       IN  IF /\ top.conf.parent # NoPath /\ EnvNeeded(top)
              /\ parent_path \in DOMAIN fs
           THEN IF ~parent_conf.env.declared
                THEN /\ exc' = "KeyError"
                     /\ obs' = [obs EXCEPT !.last = NoCall]
                     /\ UNCHANGED <<fs, stack>>
                ELSE IF EnvExists(venv)
                     THEN Symlink(venv, EnvPath(top), "venv_create", FALSE)
                     ELSE /\ stack' = SetTop([top EXCEPT
                                                !.pc = "venv_create"])
                          /\ obs' = [obs EXCEPT !.last = NoCall]
                          /\ UNCHANGED <<fs, exc>>
           ELSE /\ stack' = SetTop([top EXCEPT !.pc = "venv_create"])
                /\ obs' = [obs EXCEPT !.last = NoCall]
                /\ UNCHANGED <<fs, exc>>
    /\ UNCHANGED <<ext, tmpfiles, cwd, runs>>
    /\ Fixed

Words(ws) == [k \in 1..Len(ws) |-> Tok("", ws[k])]

\* line 161, and lines 169-171 when the tool has to be downloaded
CreateArgv(env, found) ==
    (IF found THEN <<Tok("", "virtualenv")>>
     ELSE <<Tok("", "python"), Tok("", "virtualenv-1.10.1/virtualenv.py")>>)
    \o Words(env.args) \o <<Tok("", "venv")>>

\* where the tool can build an environment when asked for path: at the
\* path itself, or at the end of the dangling link that is there
CanCreate(path) ==
    LET t == EnvEnd(path, Cardinality(DOMAIN fs))
    IN  \/ Front(t) \in DOMAIN fs /\ Last(t) = VENV
        \/ Head(t) = <<"/">>

Created(path) ==
    LET t == EnvEnd(path, Cardinality(DOMAIN fs))
    IN  IF Front(t) \in DOMAIN fs
        THEN /\ fs' = [fs EXCEPT ![Front(t)].env = EnvReal]
             /\ UNCHANGED ext
        ELSE /\ ext' = ext \cup {t}
             /\ UNCHANGED fs

\* lines 157-173; found is the outcome of find_executable(venv_bin)
VenvCreate ==
    /\ At({"venv_create"})
    /\ IF EnvNeeded(top)
       THEN \E found \in BOOLEAN, out \in {"ok", "fetch", "tar", "tool"} :
            /\ out \in {"fetch", "tar"} => ~found
            /\ out = "ok" => CanCreate(EnvPath(top))
            /\ IF out = "ok"
               THEN /\ Created(EnvPath(top))
                    /\ stack' = SetTop([top EXCEPT !.pc = "venv_return"])
                    /\ UNCHANGED exc
               ELSE /\ exc' = IF out = "fetch" THEN "IOError"
                              ELSE "CalledProcessError"
                    /\ UNCHANGED <<fs, ext, stack>>
            /\ tmpfiles' = IF out \in {"tar", "tool"} /\ ~found
                           THEN tmpfiles \cup {FreshTmp} ELSE tmpfiles
            /\ obs' = [obs EXCEPT
                 !.last = IF out \in {"ok", "tool"}
                          THEN Call("virtualenv",
                                    CreateArgv(top.conf.env, found),
                                    IF out = "ok" THEN 0 ELSE 1,
                                    EnvPath(top), NoPath)
                          ELSE NoCall,
                 !.ops = IF out \in {"ok", "tool"}
                         THEN Append(@, Op("create", out = "ok")) ELSE @,
                 !.trail = IF out \in {"ok", "tool"}
                           THEN Append(@, Event(top, "create")) ELSE @,
                 !.raised = Raised(@, "env",
                              CASE out = "ok" -> NoExc
                                [] out = "fetch" -> "IOError"
                                [] OTHER -> "CalledProcessError")]
       ELSE /\ stack' = SetTop([top EXCEPT !.pc = "venv_return"])
            /\ obs' = [obs EXCEPT !.last = NoCall]
            /\ UNCHANGED <<fs, ext, tmpfiles, exc>>
    /\ UNCHANGED <<cwd, runs>>
    /\ Fixed

\* a call that hands on the path it was given
ReturnedVenv_given(f) == f.venv

\* line 175: return os.path.abspath(env['path'])
ReturnedVenv(f) == EnvPath(f)

\* line 215: venv = create_virtualenv(...)
VenvReturn ==
    /\ At({"venv_return"})
    /\ stack' = SetTop([top EXCEPT !.venv = ReturnedVenv(top),
                                   !.pc = "popd1"])
    /\ obs' = [obs EXCEPT !.last = NoCall]
    /\ UNCHANGED <<fs, ext, tmpfiles, cwd, exc, runs>>
    /\ Fixed

(***************************************************************************)
(* unbox, lines 207-224                                                    *)
(***************************************************************************)
Popd1 ==
    /\ At({"popd1"})
    /\ cwd' = PushdExit(top, FALSE)
    /\ stack' = SetTop([top EXCEPT !.pc = "deps", !.i = 1])
    /\ obs' = [obs EXCEPT !.last = NoCall]
    /\ UNCHANGED <<fs, ext, tmpfiles, exc, runs>>
    /\ Fixed

\* a loop over the dependencies that does not look at no_deps
DepsOf_always(f) == f.conf.dependencies

\* a loop that leaves out the dependencies of a repository that is already
\* being provisioned further up
DepsOf_guarded(f) ==
    IF f.no_deps \/ \E k \in 1..Len(stack) :
                       stack[k].id # f.id /\ stack[k].repo = f.repo
    THEN << >> ELSE f.conf.dependencies

\* lines 219-220: the repositories the loop of unbox goes through
DepsOf(f) == IF f.no_deps THEN << >> ELSE f.conf.dependencies

\* a second block that does not wait for the loop
DepsDone_early(f) == TRUE

\* the loop is over
DepsDone(f) == f.i > Len(DepsOf(f))

\* lines 219-221: unbox(dep, None, no_deps, venv_bin, venv)
DepCall ==
    /\ At({"deps"})
    /\ top.i <= Len(DepsOf(top))
    \* the depth of the recursion that is followed
    /\ Len(stack) < MaxDepth
    /\ stack' = Append(SetTop([top EXCEPT !.i = @ + 1]),
                       [Frame(DepsOf(top)[top.i], NoDest,
                              top.no_deps, top.venv, cwd)
                          EXCEPT !.id = Len(obs.trail) + 1, !.by = top.id])
    /\ obs' = [obs EXCEPT !.last = NoCall,
                          !.trail = Append(@,
                            [id |-> Len(obs.trail) + 1, by |-> top.id,
                             repo |-> DepsOf(top)[top.i], ev |-> "call"])]
    /\ UNCHANGED <<fs, ext, tmpfiles, cwd, exc, runs>>
    /\ Fixed

\* line 223
Pushd2 ==
    /\ At({"deps"})
    /\ DepsDone(top)
    /\ PushdEnter("cmd", "post")
    /\ obs' = [obs EXCEPT !.last = NoCall]
    /\ UNCHANGED <<fs, ext, tmpfiles, runs>>
    /\ Fixed

Finished(result) == [obs EXCEPT !.last = NoCall,
                                !.results = Append(@, result)]

\* the end of the second pushd block and of unbox
Return ==
    /\ At({"popd2"})
    /\ cwd' = PushdExit(top, FALSE)
    /\ stack' = Front(stack)
    /\ obs' = [(IF Len(stack) = 1 THEN Finished("ok")
                ELSE [obs EXCEPT !.last = NoCall])
                 EXCEPT !.trail = Append(@, Event(top, "return"))]
    /\ UNCHANGED <<fs, ext, tmpfiles, exc, runs>>
    /\ Fixed

\* an exception leaves the innermost frame, through pushd's finally clause
\* when it was raised inside a block
Unwind ==
    /\ exc # NoExc
    /\ stack # <<>>
    /\ cwd' = IF InPushd(top.pc) THEN PushdExit(top, TRUE) ELSE cwd
    /\ stack' = Front(stack)
    /\ obs' = IF Len(stack) = 1 THEN Finished(exc)
              ELSE [obs EXCEPT !.last = NoCall]
    /\ UNCHANGED <<fs, ext, tmpfiles, exc, runs>>
    /\ Fixed

(***************************************************************************)
(* The provisioner                                                         *)
(***************************************************************************)
NoObs ==
    [last |-> NoCall, starts |-> << >>, clones |-> << >>, ran |-> {},
     ops |-> << >>, results |-> << >>, trail |-> << >>, raised |-> {}]

InitialFs ==
    {<< >>} \cup
    { (<<LOCAL_R>> :> [Cloned(URL_R) EXCEPT !.hooks = h]) :
        h \in {"dir", "link"} }

Arguments ==
    [repo : {URL_R, LOCAL_R}, dest : {NoDest, Dest(DEST_W)},
     no_deps : BOOLEAN, venv : {NoPath, ExtGood, ExtMissing}]

Init ==
    /\ world \in Worlds
    /\ fs \in InitialFs
    /\ ext = {ExtGood}
    /\ tmpfiles = {}
    /\ cwd = BaseDir
    /\ stack = << >>
    /\ exc = NoExc
    /\ args \in Arguments
    /\ runs = 0
    /\ obs = NoObs
    /\ url = << >>
    /\ name = NotComputed
    /\ hookconf = NoHooks
    /\ written = NotWritten
    /\ hook = NoChecks
    /\ file = NoFile
    /\ procs = {}

Next ==
    \/ StartRun
    \/ ResolveDest
    \/ CloneRepo
    \/ Pushd1
    \/ GitPull
    \/ GitSubmodule
    \/ LoadConf
    \/ CommandsDone
    \/ CommandFetch
    \/ CommandExec
    \/ CommandUnlink
    \/ HooksCheck
    \/ HooksRmtree
    \/ HooksSymlink
    \/ EnvCheck
    \/ VenvLink
    \/ VenvParent
    \/ VenvCreate
    \/ VenvReturn
    \/ Popd1
    \/ DepCall
    \/ Pushd2
    \/ Return
    \/ Unwind

Spec == Init /\ [][Next]_vars

(***************************************************************************)
(* The provisioner started next to a peer repository                       *)
(***************************************************************************)
\* the peer directory ../p: missing, or there without or with its
\* environment
PeerFs ==
    {<< >>} \cup
    { (<<PEER>> :> [Cloned(URL_P) EXCEPT !.env = e]) :
        e \in {EnvAbsent, EnvReal} }

\* the destination of the root: missing, or there with an environment, or
\* with a link that leads nowhere in place of one
RootFs ==
    {<< >>} \cup
    { (<<LOCAL_R>> :> [Cloned(URL_R) EXCEPT !.env = e]) :
        e \in {EnvReal, EnvLink(ExtMissing)} }

InitPeer ==
    /\ \E penv \in BOOLEAN, pfs \in PeerFs, rfs \in RootFs :
         /\ ~penv => pfs # << >> /\ pfs[<<PEER>>].env = EnvAbsent
         /\ world = WorldDeep(penv)
         /\ fs = pfs @@ rfs
    /\ ext = {ExtGood}
    /\ tmpfiles = {}
    /\ cwd = BaseDir
    /\ stack = << >>
    /\ exc = NoExc
    /\ args \in [repo : {URL_R}, dest : {NoDest}, no_deps : BOOLEAN,
                  venv : {NoPath, ExtGood, ExtMissing}]
    /\ runs = 0
    /\ obs = NoObs
    /\ url = << >>
    /\ name = NotComputed
    /\ hookconf = NoHooks
    /\ written = NotWritten
    /\ hook = NoChecks
    /\ file = NoFile
    /\ procs = {}

SpecPeer == InitPeer /\ [][Next]_vars

(***************************************************************************)
(* The provisioner on dependency graphs that are not trees                 *)
(***************************************************************************)
\* a is a dependency of the root and of the root's dependency d, which
\* declares no environment; e is a dependency of a
WorldDag ==
    (URL_R :> Repo(TRUE,
                   [pre_setup |-> << >>, post_setup |-> <<CmdPlain>>,
                    dependencies |-> <<URL_D, URL_A>>,
                    env |-> Env(<< >>), parent |-> NoPath], FALSE))
    @@ (URL_D :> Repo(TRUE,
                   [pre_setup |-> << >>, post_setup |-> <<CmdPlain>>,
                    dependencies |-> <<URL_A>>,
                    env |-> NoEnv, parent |-> NoPath], FALSE))
    @@ (URL_A :> Repo(TRUE,
                   [pre_setup |-> <<CmdRemote>>, post_setup |-> <<CmdFile>>,
                    dependencies |-> <<URL_E>>,
                    env |-> Env(<< >>), parent |-> NoPath], TRUE))
    @@ (URL_E :> Repo(TRUE,
                   [pre_setup |-> << >>, post_setup |-> << >>,
                    dependencies |-> << >>,
                    env |-> Env(<< >>), parent |-> NoPath], FALSE))

\* d names the root as its dependency; a is outside the cycle
WorldCycle ==
    (URL_R :> Repo(TRUE,
                   [pre_setup |-> << >>, post_setup |-> <<CmdPlain>>,
                    dependencies |-> <<URL_A, URL_D>>,
                    env |-> NoEnv, parent |-> NoPath], FALSE))
    @@ (URL_D :> Repo(TRUE,
                   [pre_setup |-> << >>, post_setup |-> <<CmdPlain>>,
                    dependencies |-> <<URL_R>>,
                    env |-> NoEnv, parent |-> NoPath], FALSE))
    @@ (URL_A :> Repo(TRUE,
                   [pre_setup |-> << >>, post_setup |-> <<CmdFile>>,
                    dependencies |-> << >>,
                    env |-> NoEnv, parent |-> NoPath], FALSE))

InitGraph ==
    /\ world \in {WorldDag, WorldCycle}
    /\ fs = << >>
    /\ ext = {ExtGood}
    /\ tmpfiles = {}
    /\ cwd = BaseDir
    /\ stack = << >>
    /\ exc = NoExc
    /\ args \in [repo : {URL_R}, dest : {NoDest}, no_deps : BOOLEAN,
                  venv : {NoPath}]
    /\ runs = 0
    /\ obs = NoObs
    /\ url = << >>
    /\ name = NotComputed
    /\ hookconf = NoHooks
    /\ written = NotWritten
    /\ hook = NoChecks
    /\ file = NoFile
    /\ procs = {}

SpecGraph == InitGraph /\ [][Next]_vars

\* a call of unbox that has begun goes on: the program is one thread that
\* nothing suspends
SpecGraphFair == SpecGraph /\ WF_vars(Next /\ stack # << >>)

(***************************************************************************)
(* The provisioner given a destination below the working directory         *)
(***************************************************************************)
\* the command line argument dest: x/w
DEST_BELOW == <<"x", "/", "w">>

InitBelow ==
    /\ world = WorldTree
    /\ fs = << >>
    /\ ext = {ExtGood}
    /\ tmpfiles = {}
    /\ cwd = BaseDir
    /\ stack = << >>
    /\ exc = NoExc
    /\ args \in [repo : {URL_R},
                  dest : {NoDest, Dest(DEST_W), Dest(DEST_BELOW)},
                  no_deps : BOOLEAN, venv : {NoPath}]
    /\ runs = 0
    /\ obs = NoObs
    /\ url = << >>
    /\ name = NotComputed
    /\ hookconf = NoHooks
    /\ written = NotWritten
    /\ hook = NoChecks
    /\ file = NoFile
    /\ procs = {}

SpecBelow == InitBelow /\ [][Next]_vars

TypeOK ==
    /\ runs \in 0..MaxRuns
    /\ exc \in {NoExc, "CalledProcessError", "IOError", "OSError",
                "KeyError", "IndexError"}
    /\ \A k \in 1..Len(stack) : stack[k].pc \in
         {"resolve", "clone", "pushd1", "deps"} \cup {pc \in
            {"pull", "submodule", "load_conf", "cmd", "unlink", "hooks",
             "rmtree", "symlink", "env", "venv_link", "venv_parent",
             "venv_create", "venv_return", "popd1", "popd2"} : InPushd(pc)}

(***************************************************************************)
(* The destination name on its own: repo_name_from_url over a family of    *)
(* repository URLs                                                         *)
(***************************************************************************)
SegChars == {"a", ".", "g", "i", "t"}

RECURSIVE SeqsUpTo(_, _)
SeqsUpTo(S, n) ==
    IF n = 0 THEN {<< >>}
    ELSE LET shorter == SeqsUpTo(S, n - 1)
         IN  shorter \cup {Append(q, c) : q \in shorter, c \in S}

Prefixes ==
    {<< >>, <<"u", "/">>, <<"g", "i", "t", "@", "e", ":", "u", "/">>}

\* last path segments: they begin and end with a letter
Segments ==
    {seg \in SeqsUpTo(SegChars, MaxSegLen) \ {<< >>} :
        Head(seg) # "." /\ Last(seg) # "."}

Urls ==
    {pre \o seg \o suf :
        pre \in Prefixes, seg \in Segments, suf \in {<< >>, DOTGIT}}

InitName ==
    /\ url \in Urls
    /\ name = NotComputed
    /\ world = WorldSolo
    /\ fs = << >>
    /\ ext = {}
    /\ tmpfiles = {}
    /\ cwd = BaseDir
    /\ stack = << >>
    /\ exc = NoExc
    /\ args = [repo |-> url, dest |-> NoDest, no_deps |-> TRUE,
               venv |-> NoPath]
    /\ runs = 0
    /\ obs = NoObs
    /\ hookconf = NoHooks
    /\ written = NotWritten
    /\ hook = NoChecks
    /\ file = NoFile
    /\ procs = {}

ComputeName ==
    /\ name = NotComputed
    /\ name' = repo_name_from_url(url)
    /\ UNCHANGED <<world, fs, ext, tmpfiles, cwd, stack, exc, args, runs,
                   obs, url, hookconf, written, hook, file, procs>>

NextName == ComputeName

SpecName == InitName /\ [][NextName]_vars

(***************************************************************************)
(* configure, lines 140-146, on its own: the hook commands of a            *)
(* configuration are cleaned and written                                   *)
(***************************************************************************)
HookCommands ==
    {Str(<<"a">>), Str(<<"a", " ", "b">>), Tokens(<< <<"a">> >>),
     Tokens(<< <<"a">>, <<"b">> >>)}

CommandLists == SeqsUpTo(HookCommands, MaxCmds)

\* hooks_modified holds one list, the one of the pattern '*.py' that
\* configure_python sets
InitDedup ==
    /\ hookconf \in [hooks_all : CommandLists,
                      hooks_modified : {<<m>> : m \in CommandLists}]
    /\ written = NotWritten
    /\ world = WorldSolo
    /\ fs = << >>
    /\ ext = {}
    /\ tmpfiles = {}
    /\ cwd = BaseDir
    /\ stack = << >>
    /\ exc = NoExc
    /\ args = [repo |-> URL_R, dest |-> NoDest, no_deps |-> TRUE,
               venv |-> NoPath]
    /\ runs = 0
    /\ obs = NoObs
    /\ url = << >>
    /\ name = NotComputed
    /\ hook = NoChecks
    /\ file = NoFile
    /\ procs = {}

\* remove_duplicate_commands on hooks_all, then on every list of
\* hooks_modified, then json.dump; an exception leaves the file unwritten
Configure ==
    /\ ~written.done
    /\ LET a == remove_duplicate_commands(hookconf.hooks_all)
           m == [p \in DOMAIN hookconf.hooks_modified |->
                   remove_duplicate_commands(hookconf.hooks_modified[p])]
           failed == a.error # "none"
                     \/ \E p \in DOMAIN m : m[p].error # "none"
       IN  written' =
             [error |-> IF failed THEN "UnboundLocalError" ELSE "none",
              done |-> TRUE,
              conf |-> IF failed THEN NoHooks
                       ELSE [hooks_all |-> a.commands,
                             hooks_modified |->
                               [p \in DOMAIN m |-> m[p].commands]]]
    /\ UNCHANGED <<world, fs, ext, tmpfiles, cwd, stack, exc, args, runs,
                   obs, url, name, hookconf, hook, file, procs>>

NextDedup == Configure

SpecDedup == InitDedup /\ [][NextDedup]_vars

(***************************************************************************)
(* The hook runner: run_checks(allCommands, modifiedCommands,              *)
(* changedFiles, pathOverride), section 4.2 of the specification           *)
(***************************************************************************)
\* the words of a string command: cut at blanks, a stretch between single
\* quotes kept whole
RECURSIVE Split(_, _, _, _, _)
Split(s, cur, started, quoted, acc) ==
    IF s = << >>
    THEN IF started THEN Append(acc, cur) ELSE acc
    ELSE IF Head(s) = "'"
         THEN Split(Tail(s), cur, TRUE, ~quoted, acc)
         ELSE IF Head(s) = " " /\ ~quoted
              THEN Split(Tail(s), << >>, FALSE, FALSE,
                         IF started THEN Append(acc, cur) ELSE acc)
              ELSE Split(Tail(s), Append(cur, Head(s)), TRUE, quoted, acc)

\* the tokens of a command: a string is tokenized, a list is taken as it is
TokensOf(command) ==
    IF command.kind = "str"
    THEN Split(command.text, << >>, FALSE, FALSE, << >>)
    ELSE command.toks

\* the name of a file without its directories
RECURSIVE Basename(_)
Basename(f) ==
    IF f = << >> \/ Last(f) = "/" THEN << >>
    ELSE Append(Basename(Front(f)), Last(f))

\* shell glob matching with the wildcards * and ?
RECURSIVE Glob(_, _)
Glob(pat, str) ==
    IF pat = << >> THEN str = << >>
    ELSE IF Head(pat) = "*"
         THEN Glob(Tail(pat), str) \/ (str # << >> /\ Glob(pat, Tail(str)))
         ELSE /\ str # << >>
              /\ Head(pat) = "?" \/ Head(pat) = Head(str)
              /\ Glob(Tail(pat), Tail(str))

\* a selection that runs every command on every file
Selected_any(pattern, filename) == TRUE

\* step 2: the files a (pattern, command) pair is run for
Selected(pattern, filename) == Glob(pattern, Basename(filename))

\* a verdict that is the status of the last command
Aggregate_last(retcode, rc) == rc

\* step 3: the verdict is non-zero once a command has returned non-zero
Aggregate(retcode, rc) == IF retcode # 0 THEN retcode ELSE rc

\* a runner that stops at the first failing command
GoesOn_untilfailure(rc) == rc = 0

\* step 4: whatever a command returns, the runner goes on with the next
GoesOn(rc) == TRUE

\* the PATH the spawned processes get
BinPath == <<"v", "e", "n", "v", "/", "b", "i", "n">>

Spawned(argv, rc, global) ==
    [argv |-> argv, rc |-> rc, pathenv |-> hook.path, global |-> global]

\* step 1: the next command of allCommands
RunAll ==
    /\ hook.pc = "all"
    /\ hook.i <= Len(hook.all)
    /\ \E rc \in {0, 1} :
         hook' = [hook EXCEPT
            !.calls = Append(@, Spawned(TokensOf(hook.all[hook.i]), rc,
                                        TRUE)),
            !.retcode = Aggregate(@, rc),
            !.i = @ + 1,
            !.pc = IF GoesOn(rc) THEN "all" ELSE "done"]
    /\ UNCHANGED <<world, fs, ext, tmpfiles, cwd, stack, exc, args, runs,
                   obs, url, name, hookconf, written, file, procs>>

\* allCommands is through: on to the (pattern, command) pairs
AllDone ==
    /\ hook.pc = "all"
    /\ hook.i > Len(hook.all)
    /\ hook' = [hook EXCEPT !.pc = "modified", !.j = 1, !.k = 1]
    /\ UNCHANGED <<world, fs, ext, tmpfiles, cwd, stack, exc, args, runs,
                   obs, url, name, hookconf, written, file, procs>>

\* step 2: the pair j and the file k, which the command is run for when the
\* file is selected, with the filename appended to the tokens
RunModified ==
    /\ hook.pc = "modified"
    /\ hook.j <= Len(hook.modified)
    /\ hook.k <= Len(hook.files)
    /\ LET pair == hook.modified[hook.j]
           filename == hook.files[hook.k]
       IN  IF Selected(pair.pattern, filename)
           THEN \E rc \in {0, 1} :
                  hook' = [hook EXCEPT
                     !.calls = Append(@,
                        Spawned(Append(TokensOf(pair.command), filename),
                                rc, FALSE)),
                     !.retcode = Aggregate(@, rc),
                     !.k = @ + 1,
                     !.pc = IF GoesOn(rc) THEN "modified" ELSE "done"]
           ELSE hook' = [hook EXCEPT !.k = @ + 1]
    /\ UNCHANGED <<world, fs, ext, tmpfiles, cwd, stack, exc, args, runs,
                   obs, url, name, hookconf, written, file, procs>>

\* the files are through for the pair j: on to the next pair
NextPair ==
    /\ hook.pc = "modified"
    /\ hook.j <= Len(hook.modified)
    /\ hook.k > Len(hook.files)
    /\ hook' = [hook EXCEPT !.j = @ + 1, !.k = 1]
    /\ UNCHANGED <<world, fs, ext, tmpfiles, cwd, stack, exc, args, runs,
                   obs, url, name, hookconf, written, file, procs>>

\* the pairs are through: run_checks returns retcode
ChecksReturn ==
    /\ hook.pc = "modified"
    /\ hook.j > Len(hook.modified)
    /\ hook' = [hook EXCEPT !.pc = "done"]
    /\ UNCHANGED <<world, fs, ext, tmpfiles, cwd, stack, exc, args, runs,
                   obs, url, name, hookconf, written, file, procs>>

\* the commands of the checks, as strings and as token lists
CheckCommands ==
    {Str(<<"l", " ", "'", "a", " ", "b", "'">>),
     Tokens(<< <<"t">>, <<"-", "q">> >>)}

PY_FILES == <<"*", ".", "p", "y">>
ALL_FILES == <<"*">>
ONE_LETTER == <<"?">>

Pairs ==
    {[pattern |-> PY_FILES,
      command |-> Str(<<"l", " ", "'", "a", " ", "b", "'">>)],
     [pattern |-> ALL_FILES, command |-> Tokens(<< <<"t">>, <<"-", "q">> >>)],
     [pattern |-> ONE_LETTER, command |-> Tokens(<< <<"t">> >>)]}

FOO_PY == <<"d", "/", "f", "o", ".", "p", "y">>
FOO_TXT == <<"f", ".", "t", "x", "t">>
MYFILE == <<"m">>

ChangedFiles == {FOO_PY, FOO_TXT, MYFILE}

InitChecks ==
    /\ \E a \in SeqsUpTo(CheckCommands, MaxChecks),
          m \in SeqsUpTo(Pairs, MaxPairs),
          f \in SeqsUpTo(ChangedFiles, MaxFiles) :
         hook = [NoChecks EXCEPT !.all = a, !.modified = m, !.files = f,
                                 !.path = BinPath, !.pc = "all", !.i = 1]
    /\ world = WorldSolo
    /\ fs = << >>
    /\ ext = {}
    /\ tmpfiles = {}
    /\ cwd = BaseDir
    /\ stack = << >>
    /\ exc = NoExc
    /\ args = [repo |-> URL_R, dest |-> NoDest, no_deps |-> TRUE,
               venv |-> NoPath]
    /\ runs = 0
    /\ obs = NoObs
    /\ url = << >>
    /\ name = NotComputed
    /\ hookconf = NoHooks
    /\ written = NotWritten
    /\ file = NoFile
    /\ procs = {}

NextChecks ==
    \/ RunAll
    \/ AllDone
    \/ RunModified
    \/ NextPair
    \/ ChecksReturn

SpecChecks == InitChecks /\ [][NextChecks]_vars

(***************************************************************************)
(* append(lines, filename) of devbox/__init__.py, lines 39-59              *)
(***************************************************************************)
NL == "\n"

\* text.splitlines(): the stretches between newlines, without an empty one
\* after a final newline
RECURSIVE Splitlines(_, _, _)
Splitlines(text, cur, acc) ==
    IF text = << >>
    THEN IF cur = << >> THEN acc ELSE Append(acc, cur)
    ELSE IF Head(text) = NL
         THEN Splitlines(Tail(text), << >>, Append(acc, cur))
         ELSE Splitlines(Tail(text), Append(cur, Head(text)), acc)

Range(q) == {q[n] : n \in 1..Len(q)}

\* lines 52-59: what the loop over lines writes
RECURSIVE Written(_, _)
Written(lines, to_append) ==
    IF lines = << >> THEN << >>
    ELSE (IF Head(lines) \in to_append THEN Head(lines) \o <<NL>>
          ELSE << >>)
         \o Written(Tail(lines), to_append)

\* one call of append on the file
AppendCall ==
    /\ file.calls < 2
    /\ LET text == IF file.exists THEN file.text ELSE << >>
           prepend_newline == file.exists /\ text # << >> /\ Last(text) # NL
           file_lines == IF file.exists
                         THEN Range(Splitlines(text, << >>, << >>))
                         ELSE {}
           to_append == Range(file.lines) \ file_lines
       IN  file' = IF to_append # {}
                   THEN [file EXCEPT
                           !.exists = TRUE,
                           !.text = text
                                    \o (IF prepend_newline THEN <<NL>>
                                        ELSE << >>)
                                    \o Written(file.lines, to_append),
                           !.before = text,
                           !.calls = @ + 1]
                   ELSE [file EXCEPT !.before = text, !.calls = @ + 1]
    /\ UNCHANGED <<world, fs, ext, tmpfiles, cwd, stack, exc, args, runs,
                   obs, url, name, hookconf, written, hook, procs>>

TextChars == {"a", "b", NL}

\* the lines append is given: one or two letters, or nothing
LinesGiven == {<<"a">>, <<"b">>, <<"a", "b">>, << >>}

InitAppend ==
    /\ \E e \in BOOLEAN, t \in SeqsUpTo(TextChars, MaxText),
          l \in SeqsUpTo(LinesGiven, MaxLines) :
         /\ ~e => t = << >>
         /\ file = [NoFile EXCEPT !.exists = e, !.text = t, !.lines = l]
    /\ world = WorldSolo
    /\ fs = << >>
    /\ ext = {}
    /\ tmpfiles = {}
    /\ cwd = BaseDir
    /\ stack = << >>
    /\ exc = NoExc
    /\ args = [repo |-> URL_R, dest |-> NoDest, no_deps |-> TRUE,
               venv |-> NoPath]
    /\ runs = 0
    /\ obs = NoObs
    /\ url = << >>
    /\ name = NotComputed
    /\ hookconf = NoHooks
    /\ written = NotWritten
    /\ hook = NoChecks
    /\ procs = {}

NextAppend == AppendCall

SpecAppend == InitAppend /\ [][NextAppend]_vars

(***************************************************************************)
(* gitbox's unbox (src/gitbox/unbox.py): every function enters the         *)
(* destination with pushd on its own, the setup commands are started with  *)
(* subprocess.Popen, and install runs pip                                  *)
(***************************************************************************)
GitboxFixed ==
    UNCHANGED <<world, args, url, name, hookconf, written, hook, file>>

GitboxFrame(repo, dest, venv, is_dep, entry) ==
    [Frame(repo, dest, FALSE, venv, entry)
       EXCEPT !.pc = "g_resolve", !.is_dep = is_dep]

\* main, line 259: unbox(args['repo'], args['dest'], args['v'], None, False)
GitboxStart ==
    /\ stack = << >>
    /\ runs < MaxGitboxRuns
    /\ runs' = runs + 1
    /\ exc' = NoExc
    /\ stack' = <<[GitboxFrame(args.repo, args.dest, NoPath, FALSE, cwd)
                      EXCEPT !.id = 1]>>
    /\ obs' = [obs EXCEPT !.last = NoCall, !.ran = {},
                          !.trail = <<[id |-> 1, by |-> 0,
                                       repo |-> args.repo, ev |-> "call"]>>]
    /\ UNCHANGED <<fs, ext, tmpfiles, cwd, procs>>
    /\ GitboxFixed

\* lines 224-229
GitboxResolve ==
    /\ At({"g_resolve"})
    /\ LET d == DestOf(top.repo, top.dest, cwd)
       IN  IF d = IndexError
           THEN exc' = "IndexError" /\ UNCHANGED stack
           ELSE /\ stack' = SetTop([top EXCEPT
                             !.dest = Dest(d), !.pc = "g_clone",
                             !.local0 = exists(cwd, top.repo)])
                /\ UNCHANGED exc
    /\ obs' = [obs EXCEPT !.last = NoCall]
    /\ UNCHANGED <<fs, ext, tmpfiles, cwd, runs, procs>>
    /\ GitboxFixed

\* lines 231-233
GitboxClone ==
    /\ At({"g_clone"})
    /\ IF CloneNeeded(top)
       THEN \E rc \in {0, 1} :
            /\ rc = 0 => Cloneable(top.repo)
            /\ obs' = [obs EXCEPT
                 !.last = Call("clone", << >>, rc,
                               Abs(cwd, top.dest.text), NoPath),
                 !.trail = Append(@, Event(top, "clone"))]
            /\ fs' = IF rc = 0
                     THEN fs @@ (Abs(cwd, top.dest.text)
                                   :> Cloned(OriginOf(top.repo)))
                     ELSE fs
            /\ exc' = check_call(rc)
            /\ stack' = IF check_call(rc) = NoExc
                        THEN SetTop([top EXCEPT !.pc = "g_update",
                                                !.cloned = TRUE])
                        ELSE SetTop([top EXCEPT !.cloned = TRUE])
       ELSE /\ stack' = SetTop([top EXCEPT !.pc = "g_update"])
            /\ obs' = [obs EXCEPT !.last = NoCall]
            /\ UNCHANGED <<fs, exc>>
    /\ UNCHANGED <<ext, tmpfiles, cwd, runs, procs>>
    /\ GitboxFixed

\* where each function of gitbox is once pushd(dest) has entered, and where
\* unbox goes on once the function has left through pushd's finally clause
GitboxInside ==
    ("g_update" :> "g_pull") @@ ("g_pre" :> "g_cmd")
    @@ ("g_hooks" :> "g_hooks_in") @@ ("g_venv" :> "g_venv_link")
    @@ ("g_install" :> "g_install_req") @@ ("g_post" :> "g_cmd")

GitboxAfter ==
    ("g_update_end" :> "g_load") @@ ("g_pre_end" :> "g_hooks")
    @@ ("g_hooks_end" :> "g_venv") @@ ("g_venv_end" :> "g_path")
    @@ ("g_install_end" :> "g_post") @@ ("g_post_end" :> "g_return")

InGitboxPushd(pc) ==
    pc \in {"g_pull", "g_submodule", "g_cmd", "g_hooks_in", "g_rmtree",
            "g_symlink", "g_venv_link", "g_venv_make", "g_install_req",
            "g_install_pkg"} \cup DOMAIN GitboxAfter

\* lines 80-81: tmp = os.path.abspath(os.curdir); os.chdir(path)
GitboxPushd ==
    /\ At(DOMAIN GitboxInside)
    /\ IF exists(cwd, top.dest.text)
       THEN /\ cwd' = Abs(cwd, top.dest.text)
            /\ stack' = SetTop([top EXCEPT
                          !.tmp = cwd, !.pc = GitboxInside[top.pc], !.i = 1,
                          !.stage = IF top.pc = "g_post" THEN "post"
                                    ELSE "pre"])
            /\ UNCHANGED exc
       ELSE /\ exc' = "OSError"
            /\ UNCHANGED <<cwd, stack>>
    /\ obs' = [obs EXCEPT !.last = NoCall]
    /\ UNCHANGED <<fs, ext, tmpfiles, runs, procs>>
    /\ GitboxFixed

\* lines 84-85: os.chdir(tmp)
GitboxPopd ==
    /\ At(DOMAIN GitboxAfter)
    /\ cwd' = PushdExit(top, FALSE)
    /\ stack' = SetTop([top EXCEPT !.pc = GitboxAfter[top.pc], !.i = 1])
    /\ obs' = [obs EXCEPT !.last = NoCall]
    /\ UNCHANGED <<fs, ext, tmpfiles, exc, runs, procs>>
    /\ GitboxFixed

\* update_repo, lines 120-123
GitboxPull ==
    /\ At({"g_pull"})
    /\ \E rc \in {0, 1} :
        /\ obs' = [obs EXCEPT !.last = Call("pull", << >>, rc, cwd, NoPath)]
        /\ stack' = SetTop([top EXCEPT !.pc = "g_submodule",
                                       !.updfail = @ \/ rc # 0])
    /\ UNCHANGED <<fs, ext, tmpfiles, cwd, exc, runs, procs>>
    /\ GitboxFixed

GitboxSubmodule ==
    /\ At({"g_submodule"})
    /\ \E rc \in {0, 1} :
        /\ obs' = [obs EXCEPT
             !.last = Call("submodule", << >>, rc, cwd, NoPath)]
        /\ stack' = SetTop([top EXCEPT !.pc = "g_update_end",
                                       !.updfail = @ \/ rc # 0])
    /\ UNCHANGED <<fs, ext, tmpfiles, cwd, exc, runs, procs>>
    /\ GitboxFixed

\* line 236: conf = load_conf(dest)
GitboxLoadConf ==
    /\ At({"g_load"})
    /\ stack' = SetTop([top EXCEPT
                  !.conf = load_conf(Abs(cwd, top.dest.text)),
                  !.pc = "g_pre"])
    /\ obs' = [obs EXCEPT !.last = NoCall]
    /\ UNCHANGED <<fs, ext, tmpfiles, cwd, exc, runs, procs>>
    /\ GitboxFixed

\* a child process started for the command i of a list
Child(f) == [run |-> runs, id |-> f.id, stage |-> f.stage, i |-> f.i]

\* subprocess.Popen returns as soon as the child is started
Started(f) == procs \cup {Child(f)}

\* lines 198-200: the PATH of a post_setup command is the bin directory of
\* the environment, and nothing else
GitboxPathEnv(f) ==
    IF f.stage = "post"
    THEN << <<f.conf.env.path, <<"b", "i", "n">> >> >>
    ELSE NoPath

\* lines 101-102 and 195-201: the next command of the list is started;
\* Popen raises when the command cannot be executed, and conf['env'] raises
\* in post_setup when the configuration has no env
GitboxPopen ==
    /\ At({"g_cmd"})
    /\ top.i <= Len(Commands(top))
    /\ IF top.stage = "post" /\ ~top.conf.env.declared
       THEN /\ exc' = "KeyError"
            /\ obs' = [obs EXCEPT !.last = NoCall]
            /\ UNCHANGED <<stack, procs>>
       ELSE \E ok \in BOOLEAN :
            /\ obs' = [obs EXCEPT
                 !.last = Call("popen", Commands(top)[top.i],
                               IF ok THEN 0 ELSE 1, cwd, GitboxPathEnv(top)),
                 !.trail = IF ok THEN Append(@, Event(top, top.stage))
                           ELSE @]
            /\ IF ok
               THEN /\ procs' = Started(top)
                    /\ stack' = SetTop([top EXCEPT !.i = @ + 1])
                    /\ UNCHANGED exc
               ELSE /\ exc' = "OSError"
                    /\ UNCHANGED <<stack, procs>>
    /\ UNCHANGED <<fs, ext, tmpfiles, cwd, runs>>
    /\ GitboxFixed

\* the list is through
GitboxPopenDone ==
    /\ At({"g_cmd"})
    /\ top.i > Len(Commands(top))
    /\ stack' = SetTop([top EXCEPT
                  !.pc = IF top.stage = "pre" THEN "g_pre_end"
                         ELSE "g_post_end"])
    /\ obs' = [obs EXCEPT !.last = NoCall]
    /\ UNCHANGED <<fs, ext, tmpfiles, cwd, exc, runs, procs>>
    /\ GitboxFixed

\* a child process comes to its end, whenever it does
ChildExit ==
    /\ \E p \in procs : procs' = procs \ {p}
    /\ obs' = [obs EXCEPT !.last = NoCall]
    /\ UNCHANGED <<fs, ext, tmpfiles, cwd, stack, exc, runs>>
    /\ GitboxFixed

\* setup_git_hooks, lines 109-112
GitboxHooksCheck ==
    /\ At({"g_hooks_in"})
    /\ stack' = SetTop([top EXCEPT
                  !.pc = IF HooksNeeded(cwd) THEN "g_rmtree"
                         ELSE "g_hooks_end"])
    /\ obs' = [obs EXCEPT !.last = NoCall]
    /\ UNCHANGED <<fs, ext, tmpfiles, cwd, exc, runs, procs>>
    /\ GitboxFixed

GitboxHooksRmtree ==
    /\ At({"g_rmtree"})
    /\ LET ok == fs[cwd].hooks = "dir"
       IN  /\ obs' = [obs EXCEPT !.last = NoCall,
                                 !.ops = Append(@, Op("rmtree", ok)),
                                 !.trail = Append(@, Event(top, "rmtree"))]
           /\ IF ok
              THEN /\ fs' = [fs EXCEPT ![cwd].hooks = "absent"]
                   /\ stack' = SetTop([top EXCEPT !.pc = "g_symlink"])
                   /\ UNCHANGED exc
              ELSE /\ exc' = "OSError"
                   /\ UNCHANGED <<fs, stack>>
    /\ UNCHANGED <<ext, tmpfiles, cwd, runs, procs>>
    /\ GitboxFixed

GitboxHooksSymlink ==
    /\ At({"g_symlink"})
    /\ \E ok \in BOOLEAN :
        /\ ok => fs[cwd].hooks = "absent"
        /\ obs' = [obs EXCEPT !.last = NoCall,
                              !.ops = Append(@, Op("hooklink", ok)),
                              !.trail = Append(@, Event(top, "hooklink"))]
        /\ IF ok
           THEN /\ fs' = [fs EXCEPT ![cwd].hooks = "link"]
                /\ stack' = SetTop([top EXCEPT !.pc = "g_hooks_end"])
                /\ UNCHANGED exc
           ELSE /\ exc' = "OSError"
                /\ UNCHANGED <<fs, stack>>
    /\ UNCHANGED <<ext, tmpfiles, cwd, runs, procs>>
    /\ GitboxFixed

\* create_virtualenv, lines 151-155
GitboxVenvLink ==
    /\ At({"g_venv_link"})
    /\ IF ~top.conf.env.declared
       THEN /\ stack' = SetTop([top EXCEPT !.pc = "g_venv_end"])
            /\ obs' = [obs EXCEPT !.last = NoCall]
            /\ UNCHANGED <<fs, exc>>
       ELSE IF top.venv # NoPath /\ EnvNeeded(top)
            THEN Symlink(top.venv, EnvPath(top), "g_venv_make", TRUE)
            ELSE /\ stack' = SetTop([top EXCEPT !.pc = "g_venv_make"])
                 /\ obs' = [obs EXCEPT !.last = NoCall]
                 /\ UNCHANGED <<fs, exc>>
    /\ UNCHANGED <<ext, tmpfiles, cwd, runs, procs>>
    /\ GitboxFixed

\* line 169: [virtualenv_cmd] + conf['env']['args'] + [conf['env']['path']]
GitboxCreateArgv(env) ==
    <<Tok("", "virtualenv")>> \o Words(env.args) \o <<Tok("", "venv")>>

\* lines 157-171: the creation tool is in the else branch of the test for a
\* declared parent
GitboxVenvMake ==
    /\ At({"g_venv_make"})
    /\ LET parent == Front(cwd) \o <<top.conf.parent>>
           parent_conf == load_conf(parent)
           parent_venv == parent \o <<parent_conf.env.path>>
           skip == /\ stack' = SetTop([top EXCEPT !.pc = "g_venv_end"])
                   /\ obs' = [obs EXCEPT !.last = NoCall]
                   /\ UNCHANGED <<fs, ext, exc>>
       IN  IF ~EnvNeeded(top) THEN skip
           ELSE IF ~top.is_dep /\ top.conf.parent # NoPath
           THEN IF parent \notin DOMAIN fs THEN skip
                ELSE IF ~parent_conf.env.declared
                THEN /\ exc' = "KeyError"
                     /\ obs' = [obs EXCEPT !.last = NoCall]
                     /\ UNCHANGED <<fs, ext, stack>>
                ELSE IF EnvExists(parent_venv)
                THEN /\ Symlink(parent_venv, EnvPath(top), "g_venv_end",
                                FALSE)
                     /\ UNCHANGED ext
                ELSE skip
           ELSE \E rc \in {0, 1} :
                /\ rc = 0 => CanCreate(EnvPath(top))
                /\ IF rc = 0
                   THEN /\ Created(EnvPath(top))
                        /\ stack' = SetTop([top EXCEPT
                                              !.pc = "g_venv_end"])
                        /\ UNCHANGED exc
                   ELSE /\ exc' = check_call(rc)
                        /\ UNCHANGED <<fs, ext, stack>>
                /\ obs' = [obs EXCEPT
                     !.last = Call("virtualenv",
                                   GitboxCreateArgv(top.conf.env), rc,
                                   EnvPath(top), NoPath),
                     !.ops = Append(@, Op("create", rc = 0)),
                     !.trail = Append(@, Event(top, "create"))]
    /\ UNCHANGED <<tmpfiles, cwd, runs, procs>>
    /\ GitboxFixed

\* line 242: os.path.join(os.path.pardir, dest, conf['env']['path']), the
\* environment of this repository as a dependency cloned next to it sees
\* it; conf['env'] raises for a configuration without env
GitboxVenvPath ==
    /\ At({"g_path"})
    /\ IF top.conf.env.declared
       THEN /\ stack' = SetTop([top EXCEPT
                          !.venv = Abs(cwd, top.dest.text)
                                     \o <<top.conf.env.path>>,
                          !.pc = "g_deps", !.i = 1])
            /\ UNCHANGED exc
       ELSE /\ exc' = "KeyError"
            /\ UNCHANGED stack
    /\ obs' = [obs EXCEPT !.last = NoCall]
    /\ UNCHANGED <<fs, ext, tmpfiles, cwd, runs, procs>>
    /\ GitboxFixed

\* lines 243-244: unbox(dep, None, virtualenv_cmd, virtualenv, True)
GitboxDepCall ==
    /\ At({"g_deps"})
    /\ top.i <= Len(top.conf.dependencies)
    /\ stack' = Append(SetTop([top EXCEPT !.i = @ + 1]),
                       [GitboxFrame(top.conf.dependencies[top.i], NoDest,
                                    top.venv, TRUE, cwd)
                          EXCEPT !.id = Len(obs.trail) + 1, !.by = top.id])
    /\ obs' = [obs EXCEPT !.last = NoCall,
                          !.trail = Append(@,
                            [id |-> Len(obs.trail) + 1, by |-> top.id,
                             repo |-> top.conf.dependencies[top.i],
                             ev |-> "call"])]
    /\ UNCHANGED <<fs, ext, tmpfiles, cwd, exc, runs, procs>>
    /\ GitboxFixed

GitboxDepsDone ==
    /\ At({"g_deps"})
    /\ top.i > Len(top.conf.dependencies)
    /\ stack' = SetTop([top EXCEPT !.pc = "g_install"])
    /\ obs' = [obs EXCEPT !.last = NoCall]
    /\ UNCHANGED <<fs, ext, tmpfiles, cwd, exc, runs, procs>>
    /\ GitboxFixed

\* the repositories that hold a requirements_dev.txt
WithRequirements == {URL_D}

\* lines 177-188: pip is the one of the environment, which has to be there
\* to be run
GitboxPip(next, wanted) ==
    IF ~wanted
    THEN /\ stack' = SetTop([top EXCEPT !.pc = next])
         /\ obs' = [obs EXCEPT !.last = NoCall]
         /\ UNCHANGED exc
    ELSE IF ~EnvExists(EnvPath(top))
    THEN /\ exc' = "OSError"
         /\ obs' = [obs EXCEPT !.last = NoCall]
         /\ UNCHANGED stack
    ELSE \E rc \in {0, 1} :
         /\ obs' = [obs EXCEPT
              !.last = Call("pip", << >>, rc, cwd, NoPath),
              !.trail = Append(@, Event(top, "install"))]
         /\ exc' = check_call(rc)
         /\ stack' = IF rc = 0 THEN SetTop([top EXCEPT !.pc = next])
                     ELSE stack

\* lines 183-186
GitboxInstallReq ==
    /\ At({"g_install_req"})
    /\ GitboxPip("g_install_pkg", fs[cwd].origin \in WithRequirements)
    /\ UNCHANGED <<fs, ext, tmpfiles, cwd, runs, procs>>
    /\ GitboxFixed

\* lines 187-188
GitboxInstallPkg ==
    /\ At({"g_install_pkg"})
    /\ GitboxPip("g_install_end", TRUE)
    /\ UNCHANGED <<fs, ext, tmpfiles, cwd, runs, procs>>
    /\ GitboxFixed

\* the end of unbox
GitboxReturn ==
    /\ At({"g_return"})
    /\ stack' = Front(stack)
    /\ obs' = [(IF Len(stack) = 1 THEN Finished("ok")
                ELSE [obs EXCEPT !.last = NoCall])
                 EXCEPT !.trail = Append(@, Event(top, "return"))]
    /\ UNCHANGED <<fs, ext, tmpfiles, cwd, exc, runs, procs>>
    /\ GitboxFixed

\* an exception leaves the innermost call, through pushd's finally clause
\* when it was raised inside a function
GitboxUnwind ==
    /\ exc # NoExc
    /\ stack # << >>
    /\ cwd' = IF InGitboxPushd(top.pc) THEN PushdExit(top, TRUE) ELSE cwd
    /\ stack' = Front(stack)
    /\ obs' = IF Len(stack) = 1 THEN Finished(exc)
              ELSE [obs EXCEPT !.last = NoCall]
    /\ UNCHANGED <<fs, ext, tmpfiles, exc, runs, procs>>
    /\ GitboxFixed

\* a root with one or two dependencies, the second without a configuration
\* file, and with or without a parent; penv: the configuration of the peer
\* p declares env
WorldGitbox(parent, penv, deps) ==
    (URL_R :> Repo(TRUE,
                   [pre_setup |-> <<CmdPlain, CmdFile>>,
                    post_setup |-> <<CmdPlain>>,
                    dependencies |-> deps,
                    env |-> Env(<<"--no-site">>), parent |-> parent], TRUE))
    @@ (URL_D :> Repo(TRUE,
                   [pre_setup |-> <<CmdPlain>>, post_setup |-> <<CmdFile>>,
                    dependencies |-> << >>,
                    env |-> Env(<< >>), parent |-> NoPath], FALSE))
    @@ (URL_E :> Repo(FALSE, EmptyConf, FALSE))
    @@ (URL_P :> Repo(TRUE,
                   [pre_setup |-> << >>, post_setup |-> << >>,
                    dependencies |-> << >>,
                    env |-> IF penv THEN Env(<< >>) ELSE NoEnv,
                    parent |-> NoPath], FALSE))

InitGitbox ==
    /\ \E parent \in {NoPath, PEER}, penv \in BOOLEAN,
          deps \in {<<URL_D>>, <<URL_D, URL_E>>},
          pfs \in PeerFs, rfs \in RootFs :
         /\ ~penv => pfs # << >> /\ pfs[<<PEER>>].env = EnvAbsent
         /\ parent = NoPath => penv /\ pfs = << >>
         /\ world = WorldGitbox(parent, penv, deps)
         /\ fs = pfs @@ rfs
    /\ ext = {ExtGood}
    /\ tmpfiles = {}
    /\ cwd = BaseDir
    /\ stack = << >>
    /\ exc = NoExc
    /\ args = [repo |-> URL_R, dest |-> NoDest, no_deps |-> FALSE,
               venv |-> NoPath]
    /\ runs = 0
    /\ obs = NoObs
    /\ url = << >>
    /\ name = NotComputed
    /\ hookconf = NoHooks
    /\ written = NotWritten
    /\ hook = NoChecks
    /\ file = NoFile
    /\ procs = {}

NextGitbox ==
    \/ GitboxStart
    \/ GitboxResolve
    \/ GitboxClone
    \/ GitboxPushd
    \/ GitboxPopd
    \/ GitboxPull
    \/ GitboxSubmodule
    \/ GitboxLoadConf
    \/ GitboxPopen
    \/ GitboxPopenDone
    \/ ChildExit
    \/ GitboxHooksCheck
    \/ GitboxHooksRmtree
    \/ GitboxHooksSymlink
    \/ GitboxVenvLink
    \/ GitboxVenvMake
    \/ GitboxVenvPath
    \/ GitboxDepCall
    \/ GitboxDepsDone
    \/ GitboxInstallReq
    \/ GitboxInstallPkg
    \/ GitboxReturn
    \/ GitboxUnwind

SpecGitbox == InitGitbox /\ [][NextGitbox]_vars

(***************************************************************************)
(* Properties of the destination name                                      *)
(***************************************************************************)
EndsWith(s, suf) ==
    Len(s) >= Len(suf) /\ SubSeq(s, Len(s) - Len(suf) + 1, Len(s)) = suf

\* the text after the last "/" or ":" of a URL
RECURSIVE LastSegment(_)
LastSegment(s) ==
    IF s = << >> \/ Last(s) \in {"/", ":"} THEN << >>
    ELSE Append(LastSegment(Front(s)), Last(s))

\* C2: for every URL ending in ".git" the derived name is the last path
\* segment without the ".git" suffix, and for every other URL it is the
\* whole last path segment.
C2_NameIsLastSegment ==
    name # NotComputed =>
        name = IF EndsWith(url, DOTGIT)
               THEN SubSeq(LastSegment(url), 1, Len(LastSegment(url)) - 4)
               ELSE LastSegment(url)

\* a last segment made of word characters only, and other than "git", is
\* the derived name
C2_PlainNames ==
    name # NotComputed
    /\ (\A k \in 1..Len(LastSegment(url)) : LastSegment(url)[k] \in WordChars)
    /\ LastSegment(url) # GIT
    => name = LastSegment(url)

(***************************************************************************)
(* Properties of the provisioner                                           *)
(***************************************************************************)
RunsDone == Len(obs.results)
Idle == stack = << >>

ClonesOf(path) == {k \in 1..Len(obs.clones) : obs.clones[k].path = path}

\* a step of the innermost unbox call that is at one of the given places
StepAt(pcs) == At(pcs) /\ <<stack, exc>>' # <<stack, exc>>

\* git clone is run by a step exactly when that step is the existence test
\* of unbox and finds the destination missing
C1_CloneIffMissing ==
    /\ StepAt({"clone"}) =>
         /\ obs'.clones # obs.clones <=> ~exists(cwd, top.dest.text)
         /\ obs'.clones # obs.clones =>
              /\ obs'.clones = Append(obs.clones, Last(obs'.clones))
              /\ Last(obs'.clones).path = Abs(cwd, top.dest.text)
    /\ ~At({"clone"}) => obs'.clones = obs.clones

\* C1 as stated: git clone is invoked if and only if the destination does
\* not exist when checked, and two consecutive runs on the same fresh
\* destination invoke git clone for it exactly once, the second not at all.
C1_CloneOnceInTwoRuns ==
    /\ [][C1_CloneIffMissing]_vars
    /\ [](RunsDone = 2 /\ obs.starts[1].fresh =>
            /\ Cardinality(ClonesOf(obs.starts[1].dest)) = 1
            /\ \A k \in ClonesOf(obs.starts[1].dest) : obs.clones[k].run = 1)

\* C1, amended: git clone is invoked if and only if the destination does not
\* exist when checked; two consecutive runs on the same fresh destination
\* invoke git clone for it exactly once when the clone of the first run
\* exits zero (a failed clone leaves no destination, and the second run
\* clones again).
C1_CloneOnceAfterSuccess ==
    /\ [][C1_CloneIffMissing]_vars
    /\ [](RunsDone = 2 /\ obs.starts[1].fresh
          /\ (\E k \in ClonesOf(obs.starts[1].dest) :
                 obs.clones[k].run = 1 /\ obs.clones[k].rc = 0) =>
            /\ Cardinality(ClonesOf(obs.starts[1].dest)) = 1
            /\ \A k \in ClonesOf(obs.starts[1].dest) : obs.clones[k].run = 1)

C1_Witness ==
    /\ RunsDone = 2
    /\ obs.results = <<"ok", "ok">>
    /\ obs.starts[1].fresh /\ ~obs.starts[2].fresh
    /\ obs.starts[1].dest = obs.starts[2].dest
    /\ \E k \in ClonesOf(obs.starts[1].dest) :
          obs.clones[k].run = 1 /\ obs.clones[k].rc = 0

\* the unbox call a step belongs to, after the step
top2 == stack'[Len(stack)]

\* C3: when the repository reference is an existing local path and no
\* destination is given, the destination is the reference itself, the call
\* clones nothing and works inside that directory; otherwise the destination
\* is the explicit one when given, else the name derived from the URL.
C3_Destination ==
    \A k \in 1..Len(stack) :
        LET f == stack[k]
        IN  f.pc # "resolve" =>
              IF f.local0 /\ ~f.dest0.given
              THEN /\ f.dest.text = f.repo
                   /\ ~f.cloned
                   /\ k = Len(stack) /\ InPushd(f.pc) =>
                        cwd = Abs(f.entry, f.repo)
              ELSE f.dest.text = IF f.dest0.given THEN f.dest0.text
                                 ELSE repo_name_from_url(f.repo)

C3_Witness ==
    /\ Running /\ top.pc = "hooks"
    /\ top.local0 /\ ~top.dest0.given
    /\ cwd = <<LOCAL_R>>
    /\ obs.clones = << >>

\* C4: whenever an unbox call ends, by returning or by an exception, and
\* whenever its first pushd block ends, the working directory is the one the
\* call was entered with.
C4_CwdRestored ==
    [][/\ Len(stack') < Len(stack) => cwd' = top.entry
       /\ StepAt({"popd1"}) => cwd' = top.entry]_vars

C4_Witness ==
    /\ Idle /\ cwd = BaseDir
    /\ RunsDone = 1 /\ obs.results[1] = "OSError"
    /\ Len(obs.ops) > 0
    /\ Last(obs.ops).op = "hooklink" /\ ~Last(obs.ops).ok
    /\ Last(obs.ops).dir = << <<"e">> >>

\* nothing but the unwinding of the stack happens in a step
Quiet ==
    /\ fs' = fs /\ ext' = ext /\ tmpfiles' = tmpfiles
    /\ obs'.ran = obs.ran /\ obs'.clones = obs.clones /\ obs'.ops = obs.ops
    /\ obs'.last = NoCall

\* C5: a setup command that exits non-zero raises; while the error
\* propagates no command and no provisioning step runs, every call on the
\* stack is left (so no later dependency and no post_setup of an ancestor),
\* and the run ends with that error.
C5_CommandFailureFatal ==
    [][/\ StepAt({"cmd"}) /\ obs'.last.tool = "command" /\ obs'.last.rc # 0
          => exc' = "CalledProcessError" /\ stack' = stack
       /\ exc # NoExc /\ stack # << >>
          => stack' = Front(stack) /\ exc' = exc /\ Quiet
       /\ exc # NoExc /\ Len(stack) = 1
          => obs'.results = Append(obs.results, exc)]_vars

C5_Witness ==
    /\ Idle /\ RunsDone = 1 /\ obs.results[1] = "CalledProcessError"
    /\ \E r \in obs.ran : r.dir = << <<"d">> >> /\ r.rc # 0
    /\ << <<"e">> >> \notin DOMAIN fs
    /\ \A r \in obs.ran : ~(r.dir = << <<"r">> >> /\ r.stage = "post")

\* C6: a git clone that exits non-zero raises before the destination is
\* entered, and the call is left without any further step for that
\* repository.
C6_CloneFailureFatal ==
    [][/\ StepAt({"clone"}) /\ obs'.last.tool = "clone" /\ obs'.last.rc # 0
          => exc' = "CalledProcessError" /\ cwd' = cwd /\ top2.pc = "clone"
       /\ exc # NoExc /\ stack # << >> /\ top.pc = "clone"
          => stack' = Front(stack) /\ cwd' = cwd /\ cwd = top.entry /\ Quiet
      ]_vars

C6_Witness ==
    /\ Idle /\ RunsDone = 1 /\ obs.results[1] = "CalledProcessError"
    /\ args.repo = URL_R
    /\ Len(obs.clones) = 1 /\ obs.clones[1].rc # 0
    /\ obs.ran = {} /\ obs.ops = << >> /\ fs = << >>

\* C7: whatever git pull returns the submodule update is attempted next, and
\* whatever that returns the configuration is loaded next; neither raises.
C7_UpdateBestEffort ==
    [][/\ StepAt({"pull"}) =>
            /\ obs'.last.tool = "pull"
            /\ exc' = NoExc /\ top2.pc = "submodule"
       /\ StepAt({"submodule"}) =>
            /\ obs'.last.tool = "submodule"
            /\ exc' = NoExc /\ top2.pc = "load_conf"]_vars

C7_Witness ==
    /\ Running /\ Len(stack) = 1 /\ top.pc = "popd2"
    /\ top.updfail
    /\ world = WorldTree /\ ~args.no_deps
    /\ \E r \in obs.ran : r.stage = "post" /\ r.rc = 0
                          /\ r.dir = cwd
    /\ \E k \in 1..Len(obs.ops) : obs.ops[k].op = "hooklink" /\ obs.ops[k].ok
    /\ fs[cwd].env.kind # "absent"

ThisCommand == Commands(top)[top.i]
IsRemote(f) ==
    f.i <= Len(Commands(f)) /\ URL_SCRIPT(Commands(f)[f.i][1])

\* C8 as stated: a command whose first token is an http, https or ftp URL
\* is fetched to a temporary file, run as that file followed by the rest of
\* its tokens, and the temporary file is removed after the run, when the
\* script exits zero and when it exits non-zero.
C8_RemoteScriptRemoved ==
    [][/\ StepAt({"cmd"}) /\ IsRemote(top) /\ top.path = 0
          => obs'.last.tool = "fetch" /\ obs'.last.argv = <<ThisCommand[1]>>
       /\ StepAt({"cmd"}) /\ IsRemote(top) /\ top.path # 0
          => /\ top.path \in tmpfiles
             /\ obs'.last.tool = "command"
             /\ obs'.last.argv = <<TmpTok(top.path)>> \o Tail(ThisCommand)
       /\ StepAt({"unlink"}) => top.path \notin tmpfiles'
       /\ exc # NoExc /\ stack # << >> /\ top.pc = "cmd" /\ top.path # 0
          => top.path \notin tmpfiles']_vars

HookOps(dir, op) ==
    {k \in 1..Len(obs.ops) :
        obs.ops[k].dir = dir /\ obs.ops[k].op = op /\ obs.ops[k].ok}

\* C9: .git/hooks is removed, and a link put in its place, only when
\* git_hooks exists and .git/hooks is not a link; the link is made right
\* after the removal; when .git/hooks is a link or git_hooks is missing
\* neither rmtree nor symlink is called; and over all runs .git/hooks of a
\* repository is removed at most once.
C9_HooksRelinkedOnce ==
    /\ [][/\ StepAt({"hooks"}) =>
               /\ obs'.ops = obs.ops /\ fs' = fs
               /\ top2.pc = IF GitHooksExists(cwd) /\ fs[cwd].hooks # "link"
                            THEN "rmtree" ELSE "env"
          /\ StepAt({"rmtree"}) =>
               /\ GitHooksExists(cwd) /\ fs[cwd].hooks # "link"
               /\ fs[cwd].hooks = "dir" =>
                    fs'[cwd].hooks = "absent" /\ top2.pc = "symlink"
          /\ StepAt({"symlink"}) =>
               /\ Last(obs.ops) = Op("rmtree", TRUE)
               /\ fs'[cwd].hooks \in {"link", "absent"}
               /\ fs'[cwd].hooks = "link" <=> exc' = NoExc
          /\ ~At({"rmtree", "symlink"}) =>
               \A d \in DOMAIN fs : fs'[d].hooks = fs[d].hooks]_vars
    /\ [](\A d \in DOMAIN fs : Cardinality(HookOps(d, "rmtree")) <= 1)

C9_Witness ==
    /\ Idle /\ obs.results = <<"ok", "ok">>
    /\ obs.starts[1].dest = obs.starts[2].dest
    /\ Cardinality(HookOps(obs.starts[1].dest, "rmtree")) = 1
    /\ Cardinality(HookOps(obs.starts[1].dest, "hooklink")) = 1
    /\ \A k \in 1..Len(obs.ops) :
          obs.ops[k].op \in {"rmtree", "hooklink"} => obs.ops[k].run = 1
    /\ fs[obs.starts[1].dest].hooks = "link"

\* C10 as stated: with an environment path handed down and no local
\* environment path, create_virtualenv links the local path to the
\* handed-down one and does not invoke the creation tool in that call,
\* whatever the handed-down path is.
C10_HandedDownNeverCreates ==
    [][/\ StepAt({"venv_link"}) /\ top.venv # NoPath
          /\ ~EnvExists(EnvPath(top))
          => /\ obs'.ops = Append(obs.ops, Op("envlink", TRUE))
             /\ fs'[cwd].env = EnvLink(top.venv)
       /\ StepAt({"venv_create"}) /\ top.linked
          => obs'.ops = obs.ops /\ obs'.last.tool # "virtualenv"]_vars

(***************************************************************************)
(* Properties of create_virtualenv                                         *)
(***************************************************************************)
InVenv == {"venv_link", "venv_parent", "venv_create"}

\* the peer directory of the parent a configuration names
PeerOf(f) == Front(cwd) \o <<f.conf.parent>>

\* the environment path of the peer, as its configuration gives it
PeerEnv(f) == PeerOf(f) \o <<load_conf(PeerOf(f)).env.path>>

\* the peer is there, declares an environment, and that environment exists
UsableParent(f) ==
    /\ f.conf.parent # NoPath
    /\ PeerOf(f) \in DOMAIN fs
    /\ load_conf(PeerOf(f)).env.declared
    /\ EnvExists(PeerEnv(f))

EnvOps(dir) ==
    {k \in 1..Len(obs.ops) :
        obs.ops[k].dir = dir /\ obs.ops[k].op \in {"envlink", "create"}}

\* C11 as stated: with no environment handed down, no usable parent and no
\* environment at the local path, create_virtualenv makes no symbolic link
\* and invokes the creation tool exactly once, with the argument vector
\* [tool] + env.args + [env.path].
C11_CreatesWithToolArgv ==
    [][/\ StepAt({"venv_link", "venv_parent"})
          /\ top.venv = NoPath /\ ~UsableParent(top)
          /\ ~EnvExists(EnvPath(top))
          => /\ exc' = NoExc
             /\ obs'.ops = obs.ops /\ fs' = fs
       /\ StepAt({"venv_create"})
          /\ top.venv = NoPath /\ ~UsableParent(top)
          /\ ~EnvExists(EnvPath(top))
          => /\ obs'.last.tool = "virtualenv"
             /\ obs'.last.argv = <<Tok("", "virtualenv")>>
                                   \o Words(top.conf.env.args)
                                   \o <<Tok("", "venv")>>
             /\ Len(obs'.ops) = Len(obs.ops) + 1
             /\ Last(obs'.ops).op = "create"]_vars

\* C12: when the local environment path exists, whatever is handed down and
\* whatever parent is declared, no step of create_virtualenv calls symlink
\* or the creation tool, and none raises; and no step of the provisioner
\* removes or replaces an environment that is there.
C12_ExistingEnvKept ==
    [][/\ StepAt(InVenv) /\ EnvExists(EnvPath(top))
          => /\ obs'.ops = obs.ops /\ obs'.last = NoCall
             /\ fs' = fs /\ ext' = ext /\ exc' = NoExc
       /\ \A d \in DOMAIN fs :
            /\ d \in DOMAIN fs'
            /\ fs[d].env.kind # "absent" => fs'[d].env = fs[d].env
       /\ ext \subseteq ext']_vars

C12_Witness ==
    /\ Running /\ top.pc = "venv_return" /\ Len(stack) = 1
    /\ top.venv = ExtGood /\ UsableParent(top)
    /\ fs[cwd].env = EnvReal
    /\ EnvOps(cwd) = {}

\* C13 as stated: with nothing handed down, nothing at the local
\* environment path and a parent declared, the local path is linked to the
\* environment of the peer ../parent exactly when the peer directory exists
\* and that environment exists; in every other case (no peer directory, or a
\* peer whose environment is missing or not declared) no link is made, no
\* error is raised, and the creation tool builds a new environment.
C13_ParentResolution ==
    [][/\ StepAt({"venv_parent"})
          /\ top.venv = NoPath /\ top.conf.parent # NoPath
          /\ ~EnvLexists(EnvPath(top))
          => /\ exc' = NoExc
             /\ IF UsableParent(top)
                THEN /\ fs'[cwd].env = EnvLink(PeerEnv(top))
                     /\ Last(obs'.ops) = Op("envlink", TRUE)
                ELSE /\ fs' = fs /\ obs'.ops = obs.ops
                     /\ top2.pc = "venv_create"
       /\ StepAt({"venv_create"})
          /\ top.venv = NoPath /\ top.conf.parent # NoPath
          /\ ~EnvLexists(EnvPath(top))
          => /\ ~UsableParent(top)
             /\ obs'.ops # obs.ops => Last(obs'.ops).op = "create"
             /\ exc' = NoExc => /\ Last(obs'.ops) = Op("create", TRUE)
                                /\ fs'[cwd].env = EnvReal]_vars

(***************************************************************************)
(* Properties of the traversal of the dependencies                         *)
(***************************************************************************)
IsPrefix(a, b) == Len(a) <= Len(b) /\ a = SubSeq(b, 1, Len(a))

\* the dependencies the configuration file of a repository lists
Declared(origin) ==
    IF world[origin].conf_file THEN world[origin].conf.dependencies
    ELSE << >>

\* the calls and returns of a complete depth-first provisioning of ref, the
\* dependencies taken in the order they are declared
RECURSIVE Tour(_, _, _), TourAll(_, _)
Tour(ref, deps, fuel) ==
    << <<"call", ref>> >>
    \o (IF fuel = 0 THEN << >> ELSE TourAll(deps, fuel - 1))
    \o << <<"return", ref>> >>

TourAll(deps, fuel) ==
    IF deps = << >> THEN << >>
    ELSE Tour(Head(deps), Declared(Head(deps)), fuel)
         \o TourAll(Tail(deps), fuel)

\* the repository the root of a run is a copy of
RootOrigin ==
    IF args.repo \in DOMAIN world THEN args.repo
    ELSE fs[<<args.repo>>].origin

IsCallOrReturn(e) == e.ev \in {"call", "return"}

CallsReturns ==
    LET t == SelectSeq(obs.trail, IsCallOrReturn)
    IN  [k \in 1..Len(t) |-> <<t[k].ev, t[k].repo>>]

LastRunOk == Idle /\ runs > 0 /\ RunsDone = runs /\ Last(obs.results) = "ok"

\* C14: without no_deps the calls and returns of unbox in a run follow the
\* depth-first walk of the dependency lists in declaration order (the
\* subtree of a dependency returns before the next dependency is called), a
\* run that succeeds has walked all of it, and every dependency walked is
\* on disk under the name derived from its URL; with no_deps no call but
\* the root's is made and nothing but the root's destination is cloned.
C14_DepthFirstInOrder ==
    /\ runs > 0 /\ ~args.no_deps /\ (args.repo \in DOMAIN world
                                       \/ <<args.repo>> \in DOMAIN fs) =>
         LET whole == Tour(args.repo, Declared(RootOrigin),
                           Cardinality(DOMAIN world))
         IN  /\ IsPrefix(CallsReturns, whole)
             /\ LastRunOk => CallsReturns = whole
             /\ LastRunOk =>
                  \A k \in 2..(Len(whole) - 1) :
                     <<repo_name_from_url(whole[k][2])>> \in DOMAIN fs
    /\ runs > 0 /\ args.no_deps =>
         /\ Len(stack) <= 1
         /\ IsPrefix(CallsReturns,
                     << <<"call", args.repo>>, <<"return", args.repo>> >>)
         /\ LastRunOk => Len(CallsReturns) = 2
         /\ \A k \in 1..Len(obs.clones) :
               obs.clones[k].path = obs.starts[obs.clones[k].run].dest

C14_Witness ==
    /\ LastRunOk /\ runs = 1 /\ ~args.no_deps
    /\ CallsReturns =
         << <<"call", URL_R>>, <<"call", URL_D>>, <<"call", URL_A>>,
            <<"return", URL_A>>, <<"return", URL_D>>, <<"call", URL_E>>,
            <<"return", URL_E>>, <<"return", URL_R>> >>
    /\ Len(obs.clones) = 4

\* the place of an event among the steps of the call p: its own events in
\* the order of unbox, the calls it makes for its dependencies in between,
\* and -1 for the events of other calls
Rank(ev) ==
    CASE ev = "call" -> 0
      [] ev = "clone" -> 1
      [] ev = "update" -> 2
      [] ev = "pre" -> 3
      [] ev = "rmtree" -> 4
      [] ev = "hooklink" -> 5
      [] ev \in {"envlink", "create"} -> 6
      [] ev = "post" -> 8
      [] ev = "return" -> 9

RankIn(p, e) ==
    IF e.id = p THEN Rank(e.ev)
    ELSE IF e.by = p /\ e.ev = "call" THEN 7
    ELSE -1

\* the calls the call p has made before the event k
CallsBy(p, k) ==
    {j \in 1..(k - 1) : obs.trail[j].ev = "call" /\ obs.trail[j].by = p}

\* the dependencies the call that the event e belongs to has to go through
DepsFor(e) ==
    IF args.no_deps THEN << >>
    ELSE IF e.by = 0 THEN Declared(RootOrigin) ELSE Declared(e.repo)

DirOf(f) == Abs(f.entry, f.dest.text)

AfterLoad ==
    {"cmd", "unlink", "hooks", "rmtree", "symlink", "env", "venv_link",
     "venv_parent", "venv_create", "venv_return", "popd1", "deps", "popd2"}

\* C16: in a directory without .devbox.conf load_conf returns the empty
\* configuration and raises nothing; the call then runs no pre_setup and no
\* post_setup command, never enters create_virtualenv, links and creates no
\* environment, calls no dependency, and no step of it raises (other than a
\* removal or link of .git/hooks that the filesystem refuses), so that it
\* goes on to its return.
C16_MissingConfIsEmpty ==
    [][/\ StepAt({"load_conf"}) /\ ~ConfFileExists(cwd)
          => exc' = NoExc /\ top2.conf = EmptyConf /\ top2.pc = "cmd"
       /\ StepAt(AfterLoad) /\ ~ConfFileExists(DirOf(top))
          => /\ top.conf = EmptyConf
             /\ top.pc \notin {"unlink", "venv_link", "venv_parent",
                                "venv_create", "venv_return"}
             /\ obs'.ran = obs.ran /\ obs'.last = NoCall
             /\ tmpfiles' = tmpfiles /\ ext' = ext
             /\ fs'[DirOf(top)].env = fs[DirOf(top)].env
             /\ Len(stack') <= Len(stack)
             /\ Len(stack') < Len(stack) => top.pc = "popd2"
             /\ top.pc \notin {"rmtree", "symlink"} =>
                  exc' = NoExc /\ obs'.ops = obs.ops]_vars

C16_Witness ==
    /\ Running /\ Len(stack) = 2 /\ top.pc = "popd2"
    /\ top.repo = URL_E /\ ~ConfFileExists(DirOf(top))
    /\ top.conf = EmptyConf
    /\ \A r \in obs.ran : r.dir # DirOf(top)
    /\ fs[DirOf(top)].env = EnvAbsent /\ fs[DirOf(top)].hooks = "link"

(***************************************************************************)
(* Properties of the errors a run ends with                                *)
(***************************************************************************)
\* C17 as stated: a failing clone, a failing setup command, a failing fetch
\* of a remote script and a failing creation of the environment raise
\* errors of four different kinds, so that two errors raised by different
\* stages are never of the same kind.
C17_ErrorKindsDistinct ==
    \A a \in obs.raised, b \in obs.raised :
        a.stage # b.stage => a.kind # b.kind

(***************************************************************************)
(* Properties of a run that follows a failed run                           *)
(***************************************************************************)
\* a step that raises because a tool, a command, a fetch or the filesystem
\* reported a failure to it
ExternalFailure ==
    \/ obs'.last.rc # 0
    \/ top.pc = "venv_create"
    \/ top.pc = "symlink" /\ fs[cwd].hooks = "absent"

DoneOps(dir, op) ==
    {k \in 1..Len(obs.ops) :
        obs.ops[k].dir = dir /\ obs.ops[k].op = op /\ obs.ops[k].ok}

\* C18 as stated: a failing run undoes nothing of what it did; a run that
\* follows a failed run raises only where a tool, a command or a fetch
\* fails again, so that it completes when the cause of the failure is gone;
\* and over all runs a directory is cloned, has its hooks removed and
\* linked, and has its environment created at most once each.
C18_RerunAfterFailure ==
    /\ [][/\ exc # NoExc /\ stack # << >> => fs' = fs /\ ext' = ext
          /\ (\E k \in 1..RunsDone : obs.results[k] # "ok")
             /\ Running /\ exc' # NoExc
             => ExternalFailure]_vars
    /\ [](\A d \in DOMAIN fs :
             /\ Cardinality({k \in ClonesOf(d) : obs.clones[k].rc = 0}) <= 1
             /\ \A op \in {"rmtree", "hooklink", "create"} :
                   Cardinality(DoneOps(d, op)) <= 1)

(***************************************************************************)
(* Properties of the environment the setup commands are given              *)
(***************************************************************************)
BinOf(env) == <<env.path, <<"b", "i", "n">> >>

\* C19: a post_setup command of a repository whose configuration declares
\* an environment (which is on disk by then) is given a PATH made of the
\* bin directory of that environment followed by the PATH of the process; a
\* post_setup command of a repository without environment, and every
\* pre_setup command, is given no environment of its own and inherits the
\* one of the process.
C19_PostSetupPath ==
    [][StepAt({"cmd"}) /\ obs'.last.tool = "command" =>
         IF top.stage = "post" /\ top.conf.env.declared
         THEN /\ obs'.last.pathenv = <<BinOf(top.conf.env)>> \o EnvironPath
              /\ EnvExists(Abs(cwd, top.conf.env.path))
         ELSE obs'.last.pathenv = NoPath]_vars

C19_Witness ==
    /\ Running /\ top.stage = "post" /\ top.conf.env.declared
    /\ obs.last.tool = "command" /\ obs.last.rc = 0
    /\ obs.last.pathenv = << <<VENV, <<"b", "i", "n">> >> >> \o EnvironPath
    /\ \E r \in obs.ran : r.dir = cwd /\ r.stage = "pre"

(***************************************************************************)
(* Properties of the hook commands configure writes                        *)
(***************************************************************************)
\* the first occurrence of every command of a list, in the order of the list
RECURSIVE KeepFirst(_)
KeepFirst(list) ==
    IF list = << >> THEN << >>
    ELSE IF \E j \in 1..(Len(list) - 1) : list[j] = Last(list)
         THEN KeepFirst(Front(list))
         ELSE Append(KeepFirst(Front(list)), Last(list))

\* C20 as stated: for lists that mix string commands and token-list
\* commands configure writes, for hooks_all and for every list of
\* hooks_modified, the first occurrence of every distinct command in the
\* original order: the later entries equal to an earlier one are deleted and
\* no other entry is.
C20_DuplicatesSuppressed ==
    written.done =>
        /\ written.error = "none"
        /\ written.conf.hooks_all = KeepFirst(hookconf.hooks_all)
        /\ DOMAIN written.conf.hooks_modified = DOMAIN hookconf.hooks_modified
        /\ \A p \in DOMAIN hookconf.hooks_modified :
              written.conf.hooks_modified[p] =
                KeepFirst(hookconf.hooks_modified[p])

\* lists of token lists alone do come out with their first occurrences
C20_TokenListsOnly ==
    /\ written.done
    /\ \A k \in 1..Len(hookconf.hooks_all) :
          hookconf.hooks_all[k].kind = "list"
    /\ \A p \in DOMAIN hookconf.hooks_modified :
          \A k \in 1..Len(hookconf.hooks_modified[p]) :
             hookconf.hooks_modified[p][k].kind = "list"
    => C20_DuplicatesSuppressed

(***************************************************************************)
(* Properties of the hook runner                                           *)
(***************************************************************************)
ChecksStarted == hook.pc # "idle"
ChecksDone == hook.pc = "done"

SomeCheckFailed == \E n \in 1..Len(hook.calls) : hook.calls[n].rc # 0

\* C21: the exit code of run_checks is non-zero if and only if at least one
\* of the commands it executed, global or per file, returned non-zero; it is
\* zero when all of them returned zero and when nothing was executed.
C21_AggregateVerdict ==
    ChecksStarted => (hook.retcode # 0 <=> SomeCheckFailed)

C21_Witness ==
    /\ ChecksDone /\ hook.retcode # 0
    /\ Len(hook.calls) = 3
    /\ hook.calls[1].global /\ hook.calls[1].rc # 0
    /\ \A n \in 2..3 : ~hook.calls[n].global /\ hook.calls[n].rc = 0

\* the argument vectors a pair is to be run with: one for every selected
\* file, in the order of the files
RECURSIVE ForFiles(_, _)
ForFiles(pair, files) ==
    IF files = << >> THEN << >>
    ELSE (IF Selected(pair.pattern, Head(files))
          THEN << Append(TokensOf(pair.command), Head(files)) >>
          ELSE << >>)
         \o ForFiles(pair, Tail(files))

RECURSIVE ForPairs(_)
ForPairs(pairs) ==
    IF pairs = << >> THEN << >>
    ELSE ForFiles(Head(pairs), hook.files) \o ForPairs(Tail(pairs))

\* everything run_checks has to execute, in declaration order
AllToRun ==
    [n \in 1..Len(hook.all) |-> TokensOf(hook.all[n])]
    \o ForPairs(hook.modified)

Executed == [n \in 1..Len(hook.calls) |-> hook.calls[n].argv]

MatchedBy(pattern) ==
    CASE pattern = PY_FILES -> {FOO_PY}
      [] pattern = ALL_FILES -> {FOO_PY, FOO_TXT, MYFILE}
      [] pattern = ONE_LETTER -> {MYFILE}

\* the tokens of the commands of the model
WordsOf(command) ==
    IF command = Str(<<"l", " ", "'", "a", " ", "b", "'">>)
    THEN << <<"l">>, <<"a", " ", "b">> >>
    ELSE command.toks

\* C23: a (pattern, command) pair is executed for a changed file if and
\* only if the name of the file matches the pattern ('*.py' for foo.py and
\* not for foo.txt or myfile, '*' for every file), and it is executed as the
\* tokens of the command (a string command tokenized) followed by the
\* filename.
C23_PatternSelection ==
    [][hook.pc = "modified" /\ hook.j <= Len(hook.modified)
       /\ hook.k <= Len(hook.files) /\ hook' # hook =>
         LET pair == hook.modified[hook.j]
             filename == hook.files[hook.k]
         IN  IF filename \in MatchedBy(pair.pattern)
             THEN /\ Len(hook'.calls) = Len(hook.calls) + 1
                  /\ Last(hook'.calls).argv =
                       Append(WordsOf(pair.command), filename)
             ELSE hook'.calls = hook.calls]_vars

C23_Witness ==
    /\ ChecksDone
    /\ hook.files = <<FOO_TXT, FOO_PY>>
    /\ Len(hook.modified) = 1
    /\ hook.modified[1].pattern = PY_FILES
    /\ hook.modified[1].command.kind = "str"
    /\ hook.all = << >>
    /\ Executed = << << <<"l">>, <<"a", " ", "b">>, FOO_PY >> >>

(***************************************************************************)
(* Properties of append                                                    *)
(***************************************************************************)
RECURSIVE Concat(_)
Concat(lines) ==
    IF lines = << >> THEN << >>
    ELSE Head(lines) \o <<NL>> \o Concat(Tail(lines))

\* the lines of the list that the text does not hold, each once, in the
\* order of the list
RECURSIVE Missing(_, _)
Missing(lines, text) ==
    IF lines = << >> THEN << >>
    ELSE LET rest == Missing(Front(lines), text)
         IN  IF Last(lines) \in Range(Splitlines(text, << >>, << >>))
                \/ Last(lines) \in Range(Front(lines))
             THEN rest
             ELSE Append(rest, Last(lines))

\* C24 as stated: after append the file holds its prior content unchanged,
\* followed by one newline only if that content did not end with one, and
\* then every line of the list that was not in the file, once, in the given
\* order, each with a newline; a line that was in the file is not written;
\* and a second identical call leaves the file as it is.
C24_AppendNoDuplicates ==
    file.calls > 0 =>
        /\ file.text =
             IF Missing(file.lines, file.before) = << >>
             THEN file.before
             ELSE file.before
                  \o (IF file.before # << >> /\ Last(file.before) # NL
                      THEN <<NL>> ELSE << >>)
                  \o Concat(Missing(file.lines, file.before))
        /\ file.calls = 2 => file.text = file.before

\* for a list without repeated lines append does all of that
C24_DistinctLines ==
    Cardinality(Range(file.lines)) = Len(file.lines)
    => C24_AppendNoDuplicates

(***************************************************************************)
(* Properties of gitbox's unbox                                            *)
(***************************************************************************)
\* a step of unbox itself, as opposed to the end of a child process
UnboxStep == stack # << >> /\ <<stack, exc>>' # <<stack, exc>>

\* C25 as stated: in gitbox's unbox every pre_setup and post_setup command
\* has come to its end before the next command or the next provisioning
\* step begins: no step of unbox is taken while a command it has started is
\* still running (so that the pre_setup commands are over when the hooks
\* are linked and the environment is made), and none is running once unbox
\* has returned.
C25_CommandsWaitedFor ==
    /\ [][UnboxStep => procs = {}]_vars
    /\ [](Idle => procs = {})

\* C30 as stated: when gitbox's create_virtualenv returns normally for a
\* configuration that declares env, the local environment path is there,
\* as a link to the handed-down or the parent's environment or as an
\* environment made by the creation tool; with the path missing and no link
\* possible (a declared parent whose directory or environment is missing)
\* the creation tool has been run.
C30_EnvLinkedOrCreated ==
    At({"g_venv_end"}) /\ top.conf.env.declared =>
        EnvLexists(EnvPath(top))

(***************************************************************************)
(* Properties of the walk over a dependency graph                          *)
(***************************************************************************)
\* the repositories that the dependency lists lead to from the set S
RECURSIVE Closure(_, _)
Closure(S, fuel) ==
    IF fuel = 0 THEN S
    ELSE Closure(S \cup UNION {Range(Declared(r)) : r \in S}, fuel - 1)

Below(r) == Closure(Range(Declared(r)), Cardinality(DOMAIN world))
OnCycle(r) == r \in Below(r)

\* the repositories a run has to provision
Walked ==
    IF args.no_deps THEN {RootOrigin}
    ELSE {RootOrigin} \cup Below(RootOrigin)

Cyclic == ~args.no_deps /\ \E r \in Walked : OnCycle(r)

PostRan(r) ==
    \E k \in 1..Len(obs.trail) :
       obs.trail[k].repo = r /\ obs.trail[k].ev = "post"

ReEntered ==
    \E j, k \in 1..Len(stack) : j < k /\ stack[j].repo = stack[k].repo

\* C26: on an acyclic dependency graph every run of unbox comes to an end;
\* it ends with an error only when a command, a download or a file
\* operation has failed, and when it ends well the post_setup commands of every repository reachable from the root
\* have been run.  On a graph with a cycle reachable from the root (no_deps
\* unset) no run ends well and no post_setup command of a repository on
\* the cycle is ever run: as long as no command fails the repositories of
\* the cycle are entered again, down to any depth that is followed.
C26_TraversalTermination ==
    /\ [](~Cyclic /\ Idle /\ runs > 0 =>
            IF Last(obs.results) = "ok"
            THEN \A r \in Walked :
                    world[r].conf.post_setup # << >> => PostRan(r)
            ELSE Last(obs.results) \in
                   {"CalledProcessError", "IOError", "OSError"})
    /\ (~Cyclic /\ ~Idle) ~> Idle
    /\ [](Cyclic =>
            /\ \A k \in 1..Len(obs.results) : obs.results[k] # "ok"
            /\ \A r \in Walked : OnCycle(r) => ~PostRan(r))
    /\ (Cyclic /\ ~Idle) ~> (Idle \/ (Len(stack) = MaxDepth /\ ReEntered))

C26_Witness ==
    /\ Cyclic /\ Len(stack) = MaxDepth /\ ReEntered
    /\ top.repo = URL_D /\ top.pc = "deps" /\ top.i = 1
    /\ PostRan(URL_A)

(***************************************************************************)
(* Properties of the environment handed down the dependency graph          *)
(***************************************************************************)
VenvOf(dir) == dir \o <<VENV>>
RootDir == obs.starts[1].dest

Creations == {k \in 1..Len(obs.ops) : obs.ops[k].op = "create"}

\* the call f has left create_virtualenv, or had no environment to make
PastEnv(f) ==
    f.pc \in {"venv_return", "popd1", "deps"} \/ f.stage = "post"

\* C27: in the first run of unbox on a root that declares env, started
\* without a venv argument and with no environment on disk, the creation
\* tool is run at most once and only for the root, and exactly once when
\* the root has its environment; every dependency call receives the
\* environment path of its caller when the caller declares env and
\* otherwise the very path the caller received; and every dependency that
\* declares env and is past create_virtualenv has a symbolic link at its
\* environment path that leads, directly or through other links, to the
\* environment of the root.
C27_EnvironmentShared ==
    runs = 1 /\ world[RootOrigin].conf.env.declared =>
      /\ Cardinality(Creations) <= 1
      /\ \A k \in Creations : obs.ops[k].dir = RootDir
      /\ (stack # << >> /\ PastEnv(stack[1])) \/ LastRunOk =>
            /\ \E k \in Creations : obs.ops[k].ok
            /\ fs[RootDir].env = EnvReal
      /\ \A k \in 2..Len(stack) :
            /\ stack[k].venv0 =
                 IF stack[k - 1].conf.env.declared
                 THEN VenvOf(DirOf(stack[k - 1]))
                 ELSE stack[k - 1].venv0
            /\ stack[k].conf.env.declared /\ PastEnv(stack[k]) =>
                 /\ fs[DirOf(stack[k])].env.kind = "link"
                 /\ EnvEnd(VenvOf(DirOf(stack[k])), Cardinality(DOMAIN fs))
                      = VenvOf(RootDir)
      /\ LastRunOk /\ ~args.no_deps =>
            \A d \in DOMAIN fs :
               d # RootDir /\ world[fs[d].origin].conf.env.declared =>
                 /\ fs[d].env.kind = "link"
                 /\ EnvEnd(VenvOf(d), Cardinality(DOMAIN fs))
                      = VenvOf(RootDir)

\* e is linked to the environment of a, itself a link to that of the root,
\* and a has received the path of the root through d
C27_Witness ==
    /\ LastRunOk /\ runs = 1 /\ ~args.no_deps /\ world = WorldDag
    /\ fs[<< <<"e">> >>].env = EnvLink(VenvOf(<< <<"a">> >>))
    /\ fs[<< <<"a">> >>].env = EnvLink(VenvOf(RootDir))
    /\ fs[RootDir].env = EnvReal
    /\ Cardinality(Creations) = 1

(***************************************************************************)
(* Properties of a repository reached by several dependency paths          *)
(***************************************************************************)
RECURSIVE SumOver(_, _, _)
\* the number of dependency paths that lead from the repository from to r
RECURSIVE Paths(_, _, _)
Paths(from, r, fuel) ==
    IF from = r THEN 1
    ELSE IF fuel = 0 THEN 0
    ELSE SumOver(Declared(from), r, fuel - 1)

SumOver(deps, r, fuel) ==
    IF deps = << >> THEN 0
    ELSE Paths(Head(deps), r, fuel) + SumOver(Tail(deps), r, fuel)

PathsTo(r) ==
    IF args.no_deps THEN 1
    ELSE Paths(RootOrigin, r, Cardinality(DOMAIN world))

\* how often the step ev has been taken for the repository r in this run
Count(r, evs) ==
    Cardinality({k \in 1..Len(obs.trail) :
                   obs.trail[k].repo = r /\ obs.trail[k].ev \in evs})

\* C28: in a run on an acyclic dependency graph a repository is cloned at
\* most once, its .git/hooks removed and linked at most once and its
\* environment created or linked at most once; and in a run that ends well
\* a repository that k dependency paths lead to from the root has been
\* entered k times, updated k times, and each of its pre_setup and
\* post_setup commands has been run k times.
C28_RepeatedVisits ==
    ~Cyclic /\ runs > 0 =>
      \A r \in Walked :
        /\ Count(r, {"clone"}) <= 1
        /\ Count(r, {"rmtree"}) <= 1
        /\ Count(r, {"hooklink"}) <= 1
        /\ Count(r, {"envlink", "create"}) <= 1
        /\ LastRunOk =>
             /\ Count(r, {"call"}) = PathsTo(r)
             /\ Count(r, {"update"}) = PathsTo(r)
             /\ Count(r, {"pre"}) =
                  PathsTo(r) * Len(world[r].conf.pre_setup)
             /\ Count(r, {"post"}) =
                  PathsTo(r) * Len(world[r].conf.post_setup)

\* a, reached through d and straight from the root, in a first run
C28_Witness ==
    /\ LastRunOk /\ runs = 1 /\ ~args.no_deps /\ world = WorldDag
    /\ PathsTo(URL_A) = 2
    /\ Count(URL_A, {"clone"}) = 1 /\ Count(URL_A, {"hooklink"}) = 1
    /\ Count(URL_A, {"envlink"}) = 1
    /\ Count(URL_A, {"update"}) = 2
    /\ Count(URL_A, {"pre"}) = 2 /\ Count(URL_A, {"post"}) = 2

(***************************************************************************)
(* Properties of the directory dependencies are provisioned from           *)
(***************************************************************************)
\* the call of a dependency has settled its destination
Settled(f) == f.pc # "resolve"

\* every call of unbox for a dependency, at any depth, was made in the
\* working directory the root call was made in, and its destination is the
\* name derived from its URL in that directory
FromCallersDirectory ==
    \A k \in 2..Len(stack) :
       /\ stack[k].entry = stack[1].entry
       /\ Settled(stack[k]) =>
            /\ DirOf(stack[k]) =
                 stack[1].entry \o <<repo_name_from_url(stack[k].repo)>>
            /\ stack[k].cloned /\ exc = NoExc => DirOf(stack[k]) \in DOMAIN fs

\* the directories of the calls j and k are in the same directory
Siblings(j, k) == Front(DirOf(stack[j])) = Front(DirOf(stack[k]))

\* C29 as stated: every dependency, at any depth, is provisioned from the
\* working directory the root unbox was called in, so that it is cloned,
\* under the name derived from its URL, as a sibling of the root
\* repository.
C29_ClonedAsSibling ==
    /\ FromCallersDirectory
    /\ \A k \in 2..Len(stack) : Settled(stack[k]) => Siblings(1, k)

\* C29: every dependency, at any depth, is provisioned from the working
\* directory the root unbox was called in and cloned there under the name
\* derived from its URL; it is a sibling of the root repository when the
\* destination of the root is a plain name in that directory.
C29_ProvisionedFromCallersDirectory ==
    /\ FromCallersDirectory
    /\ \A k \in 2..Len(stack) :
          Settled(stack[k]) /\ Len(DirOf(stack[1])) = Len(stack[1].entry) + 1
             => Siblings(1, k)

\* the second dependency is cloned next to x, not next to the root x/w
C29_Witness ==
    /\ Running /\ Len(stack) = 2 /\ args.dest = Dest(DEST_BELOW)
    /\ top.repo = URL_E /\ top.cloned /\ top.pc = "pushd1"
    /\ DirOf(top) = << <<"e">> >> /\ DirOf(top) \in DOMAIN fs
    /\ DirOf(stack[1]) = << <<"x">>, <<"w">> >>
    /\ cwd = BaseDir

====
